---- MODULE Spec2Model ----
(***************************************************************************)
(* State-machine model of the GraphAgentAutomated orchestration layer:     *)
(* the relational repository (agents, versions, runs) as it is used by     *)
(* AgentOptimizationService, the HTTP handlers of api/routers/agents.py,   *)
(* the in-memory idempotency store and the in-process async job queue.     *)
(*                                                                         *)
(* Strings whose characters matter (tenant ids, agent names, idempotency   *)
(* keys) are sequences of one-character strings, so that strip() and       *)
(* string concatenation are computed and not assumed.                      *)
(***************************************************************************)
EXTENDS Naturals, Integers, Sequences, FiniteSets, TLC

\* ------------------------------------------------------------------ bounds
\* Number of HTTP requests in a run of each specification.
MaxDbRequests == 4
MaxTenantRequests == 3
MaxIdemRequests == 2
MaxJobRequests == 2
MaxFairRequests == 2
MaxNow == 4             \* ticks of the monotonic clock
MaxCalls == 3           \* execute_case calls on one adapter
MaxRounds == 3          \* SearchConfig.rounds
MaxCases == 5           \* cases handed to _split_cases
MaxPathLen == 3         \* characters of an artifact path
MaxPuts == 2            \* put calls on one artifact store
MaxParityRequests == 2  \* manual-parity requests

\* InMemoryJobQueue.__init__(max_workers=2), used by JOB_QUEUE = InMemoryJobQueue()
max_workers == 2

\* ------------------------------------------------------------------ values
None == <<"None">>              \* a header that was not sent
TenantA == <<"a">>
TenantB == <<"b">>
TenantBlank == <<" ">>          \* a tenant id that is only whitespace
AgentX == <<"x">>               \* the external agent_name of the requests
KeyK == <<"k">>
KeyBlank == <<" ">>
NoBody == [none |-> TRUE]
NoResp == [code |-> 0, body |-> NoBody]

VARIABLES
    singleWriter,   \* TRUE: the database admits one writing transaction at a
                    \* time (SQLite); FALSE: writers run concurrently
    dbLock,         \* the request whose transaction holds the write lock, or 0
    agents,         \* committed rows of table agents (their unique names)
    versions,       \* committed rows of table agent_versions
    runs,           \* committed rows of table optimization_runs
    req,            \* per request: its inputs, the handler's position, its response
    tx,             \* per request: the service call made for it and its session
    records,        \* InMemoryIdempotencyStore._records
    jobs,           \* InMemoryJobQueue._jobs
    workQueue,      \* the work items of the ThreadPoolExecutor, oldest first
    workers,        \* per pool thread: the job it holds and how far it is
    adapter,        \* one Chat2GraphSDKRuntimeAdapter, its settings, the clock
                    \* and the execute_case call in progress
    search,         \* one AFlowXSearchEngine.optimize call: its config and
                    \* dataset, its locals and its result
    synth,          \* one DynamicDatasetSynthesizer and its synthesize call
    store           \* one artifact store: its backend, its objects and the
                    \* put call in progress

vars == <<singleWriter, dbLock, agents, versions, runs, req, tx, records,
          jobs, workQueue, workers, adapter, search, synth, store>>
\* the components outside the request handlers
libVars == <<adapter, search, synth, store>>
\* the state of the request handlers, the database, the stores and the queue
apiVars == <<singleWriter, dbLock, agents, versions, runs, req, tx, records,
             jobs, workQueue, workers>>
dbVars == <<dbLock, agents, versions, runs>>
queueVars == <<jobs, workQueue, workers>>

Req == DOMAIN req
Workers == 1..max_workers

\* ------------------------------------------------------------------ strings
RECURSIVE lstrip(_)
lstrip(s) == IF s # <<>> /\ Head(s) = " " THEN lstrip(Tail(s)) ELSE s

RECURSIVE rstrip(_)
rstrip(s) ==
    IF s # <<>> /\ s[Len(s)] = " " THEN rstrip(SubSeq(s, 1, Len(s) - 1)) ELSE s

strip(s) == rstrip(lstrip(s))

\* api/dependencies.py: the tenant is stripped; an empty one raises HTTP 500.
scoped_name_raises(tenant_id) == strip(tenant_id) = <<>>

\* Faulty variant: the stored name leaves the tenant out.
to_tenant_scoped_agent_name_unscoped(agent_name, tenant_id) ==
    <<":", ":">> \o agent_name

to_tenant_scoped_agent_name(agent_name, tenant_id) ==
    strip(tenant_id) \o <<":", ":">> \o agent_name

\* api/routers/agents.py
_normalize_idempotency_key(idempotency_key) ==
    IF idempotency_key = None THEN None ELSE strip(idempotency_key)

_build_idempotency_scope(tenant_id, operation) ==
    tenant_id \o <<":">> \o <<operation>>

\* infrastructure/runtime/idempotency_store.py
_build_record_key(scope, key) == scope \o <<":", ":">> \o key

\* ------------------------------------------------------------------ repository
\* Rows of agent_versions: id is the primary key (the request that inserted
\* the row), agent the owning agents row (by its unique name). seq is not a
\* column: it numbers the committed version rows of the agent in commit
\* order.
VersionRow(id, agent, version, lifecycle, seq) ==
    [id |-> id, agent |-> agent, version |-> version, lifecycle |-> lifecycle,
     seq |-> seq]

RunRow(id, agent) == [id |-> id, agent |-> agent]

SetMax(S) == CHOOSE m \in S : \A n \in S : n <= m

\* AgentRepository.list_versions
list_versions(rows, agent_name) == {v \in rows : v.agent = agent_name}

\* AgentRepository.next_version
next_version(rows, agent_name) ==
    LET mine == list_versions(rows, agent_name)
    IN  IF mine = {} THEN 1 ELSE SetMax({v.version : v \in mine}) + 1

\* AgentRepository.get_version: the rows its SELECT matches
get_version(rows, agent_name, version) ==
    {v \in list_versions(rows, agent_name) : v.version = version}

\* AgentRepository.update_lifecycle, the loop over list_versions: the rows
\* other than the promoted version number that are read as DEPLOYED are
\* set to VALIDATED in the session.
demoted(rows, agent_name, version) ==
    {<<v.id, "validated">> :
        v \in {w \in list_versions(rows, agent_name) :
                 w.version # version /\ w.lifecycle = "deployed"}}

\* flush of the session's pending lifecycle changes: UPDATE ... WHERE id = ?
apply_updates(rows, upd) ==
    {IF \E u \in upd : u[1] = v.id
        THEN [v EXCEPT !.lifecycle = (CHOOSE u \in upd : u[1] = v.id)[2]]
        ELSE v : v \in rows}

to_version_dict(v) == [version |-> v.version, lifecycle |-> v.lifecycle, id |-> v.id]

\* ------------------------------------------------------------------ manual blueprints
\* A manual_blueprint_path is described by what the file system holds at
\* it: whether it resolves under MANUAL_BLUEPRINTS_DIR, what is there, the
\* file's suffix and what the file contains.
ManualPath(location, kind, suffix, content) ==
    [location |-> location, kind |-> kind, suffix |-> suffix, content |-> content]
PathGood == ManualPath("inside", "file", ".yml", "object")
PathOutside == ManualPath("outside", "file", ".yml", "object")
PathMissing == ManualPath("inside", "missing", ".yml", "object")
PathDirectory == ManualPath("inside", "directory", ".yml", "object")
PathBadSuffix == ManualPath("inside", "file", ".txt", "object")
PathNotObject == ManualPath("inside", "file", ".yml", "list")
PathBadYaml == ManualPath("inside", "file", ".yml", "malformed")
PathBadJson == ManualPath("inside", "file", ".json", "malformed")

\* AgentOptimizationService._resolve_manual_blueprint_path: the exception
\* it raises, or "none"
_resolve_manual_blueprint_path(manual_blueprint_path) ==
    IF manual_blueprint_path.location # "inside" THEN "ValueError"
    ELSE IF manual_blueprint_path.kind # "file" THEN "ValueError"
    ELSE "none"
\* WorkflowBlueprintLoader._read_payload: json.load raises JSONDecodeError,
\* a ValueError; yaml.safe_load raises YAMLError, which is not one
_read_payload(file_path) ==
    IF file_path.content = "malformed"
    THEN IF file_path.suffix = ".json" THEN "ValueError" ELSE "YAMLError"
    ELSE IF file_path.content # "object" THEN "ValueError"
    ELSE "none"
\* WorkflowBlueprintLoader.load: the exception it raises, or "none"
load(file_path) ==
    IF file_path.kind # "file" THEN "ValueError"
    ELSE IF file_path.suffix \notin {".yml", ".yaml", ".json"} THEN "ValueError"
    ELSE _read_payload(file_path)
\* benchmark_manual_parity before its optimize call: resolve, then load
manual_blueprint_error(manual_blueprint_path) ==
    IF _resolve_manual_blueprint_path(manual_blueprint_path) # "none"
    THEN _resolve_manual_blueprint_path(manual_blueprint_path)
    ELSE load(manual_blueprint_path)

\* ------------------------------------------------------------------ authentication
\* api/dependencies.py. A header is None when it was not sent. An
\* Authorization header is described by its scheme and its token; a token
\* by its number of dot-separated segments, the alg of its header, the
\* secret it was signed with and the claims of its payload.
ROLE_PERMISSIONS(role) ==
    CASE role = "viewer" -> {"versions:read"}
      [] role = "operator" -> {"versions:read", "optimize:run", "parity:run"}
      [] role = "admin" -> {"versions:read", "versions:deploy", "versions:rollback",
                            "optimize:run", "parity:run"}
      [] OTHER -> {}
Roles == {"viewer", "operator", "admin"}

AuthContext(principal, tenant_id, role) ==
    [principal |-> principal, tenant_id |-> tenant_id, role |-> role]
\* AuthContext.permissions
permissions(auth) == ROLE_PERMISSIONS(auth.role)
\* what a dependency gives: the context it returns, or the status of the
\* HTTPException it raises
Returned(auth) == [status_code |-> 200, auth |-> auth]
Raised(status_code) == [status_code |-> status_code, auth |-> AuthContext("", <<>>, "")]

Jwt(segments, alg, signed_with, exp, tenant_id, role) ==
    [segments |-> segments, alg |-> alg, signed_with |-> signed_with, exp |-> exp,
     tenant_id |-> tenant_id, role |-> role]
NoToken == Jwt(0, "", "", 0, <<>>, "")
Header(scheme, token) == [scheme |-> scheme, token |-> token]
NoHeader == Header("None", NoToken)         \* no Authorization header
BlankHeader == Header("", NoToken)          \* a header of whitespace only
BasicHeader == Header("basic", Jwt(1, "", "", 0, <<>>, ""))
Bearer(token) == Header("bearer", token)

\* Settings of the deployment: AUTH_API_KEYS_JSON maps three keys to one
\* principal of each role in tenant a, AUTH_JWT_KEYS_JSON holds one secret,
\* no issuer and no audience are required.
KeyViewer == <<"v">>
KeyOperator == <<"o">>
KeyAdmin == <<"m">>
KeyUnknown == <<"u">>
auth_api_keys ==
    (KeyViewer :> AuthContext("viewer-1", TenantA, "viewer"))
    @@ (KeyOperator :> AuthContext("operator-1", TenantA, "operator"))
    @@ (KeyAdmin :> AuthContext("admin-1", TenantA, "admin"))
auth_jwt_secret == "secret"
auth_jwt_clock_skew_seconds == 30
auth_default_tenant_id == <<"d">>
\* time.time() when the token is validated
JwtNow == 100

\* _extract_bearer_token: the token, None, or 401
_extract_bearer_token(authorization) ==
    IF authorization = NoHeader THEN [status_code |-> 200, token |-> NoToken]
    ELSE IF authorization.scheme = "" THEN [status_code |-> 200, token |-> NoToken]
    ELSE IF authorization.scheme # "bearer" \/ authorization.token.segments = 0
    THEN [status_code |-> 401, token |-> NoToken]
    ELSE [status_code |-> 200, token |-> authorization.token]

\* _validate_jwt_claims, the status it ends with: exp is required (0: the claim is absent) and the
\* token is expired once now > exp + skew
_validate_jwt_claims(payload) ==
    IF payload.exp = 0 \/ JwtNow > payload.exp + auth_jwt_clock_skew_seconds
    THEN 401
    ELSE 200

\* _parse_jwt_auth_context
_parse_jwt_auth_context(token) ==
    IF token.segments # 3 THEN Raised(401)
    ELSE IF token.alg # "HS256" THEN Raised(401)
    ELSE IF token.signed_with # auth_jwt_secret THEN Raised(401)
    ELSE IF _validate_jwt_claims(token) # 200 THEN Raised(401)
    ELSE IF strip(token.tenant_id) = <<>> THEN Raised(401)
    ELSE IF token.role \notin Roles THEN Raised(401)
    ELSE Returned(AuthContext("jwt-principal", strip(token.tenant_id), token.role))

\* get_auth_context
get_auth_context(auth_enabled, x_api_key, authorization) ==
    LET token == _extract_bearer_token(authorization)
    IN  IF ~auth_enabled
        THEN Returned(AuthContext("local-dev", auth_default_tenant_id, "admin"))
        ELSE IF token.status_code # 200 THEN Raised(token.status_code)
        ELSE IF token.token # NoToken THEN _parse_jwt_auth_context(token.token)
        ELSE IF x_api_key = None THEN Raised(401)
        ELSE IF x_api_key \notin DOMAIN auth_api_keys THEN Raised(401)
        ELSE Returned(auth_api_keys[x_api_key])

\* Faulty variant: every authenticated role passes.
require_permission_any_role(permission, auth) == auth
\* require_permission(permission), the dependency of every endpoint
require_permission(permission, auth) ==
    IF auth.status_code # 200 THEN auth
    ELSE IF permission \notin permissions(auth.auth) THEN Raised(403)
    ELSE auth

\* ------------------------------------------------------------------ requests
IdleReq == [kind |-> "none", tenant |-> <<>>, name |-> <<>>, version |-> 0,
            job_id |-> 0, key |-> None, manual_blueprint_path |-> PathGood,
            auth_enabled |-> FALSE, x_api_key |-> None, authorization |-> NoHeader,
            pc |-> "idle",
            fin |-> FALSE, resp |-> NoResp]

\* tx[r]: pc is the position of the service call; agentSeen what
\* get_or_create_agent read; newAgent, version: the rows pending in the
\* session; upd: pending lifecycle changes; error: the exception raised.
\* History, not program state: calls counts the invocations of the job's
\* runner; waited records that no pool thread was free when the job was
\* handed to the executor.
IdleTx == [pc |-> "none", agentSeen |-> FALSE, newAgent |-> FALSE,
           version |-> 0, upd |-> {}, error |-> "none", calls |-> 0,
           waited |-> FALSE]

\* Request ids number the requests in their order of arrival.
InOrder(r) == \A q \in Req : q < r => req[q].pc # "idle"

ScopedName(r) == to_tenant_scoped_agent_name(req[r].name, req[r].tenant)

Respond(r, code, body) ==
    [req EXCEPT ![r].pc = "done", ![r].resp = [code |-> code, body |-> body]]

LockFree(r) == singleWriter => dbLock \in {0, r}

\* ------------------------------------------------------------------ idempotency store
NoneResponse == [none |-> TRUE]     \* IdempotencyRecord.response is None

\* Faulty variant: a completed record is started again instead of replayed.
begin_restarts_completed(recs, scope, key) ==
    LET rk == _build_record_key(scope, key)
        fresh == [status |-> "in_progress", response |-> NoneResponse]
    IN  IF rk \notin DOMAIN recs \/ recs[rk].status = "completed"
        THEN [state |-> "started", response |-> NoneResponse,
              records |-> (rk :> fresh) @@ recs]
        ELSE [state |-> "in_progress", response |-> NoneResponse, records |-> recs]

\* Faulty variant: a record in progress does not stop a second caller.
begin_ignores_in_progress(recs, scope, key) ==
    LET rk == _build_record_key(scope, key)
        fresh == [status |-> "in_progress", response |-> NoneResponse]
    IN  IF rk \in DOMAIN recs /\ recs[rk].status = "completed"
                              /\ recs[rk].response # NoneResponse
        THEN [state |-> "replay", response |-> recs[rk].response, records |-> recs]
        ELSE [state |-> "started", response |-> NoneResponse,
              records |-> (rk :> fresh) @@ recs]

\* InMemoryIdempotencyStore.begin: the state it returns, the cached response
\* and the records it leaves.
begin(recs, scope, key) ==
    LET rk == _build_record_key(scope, key)
    IN  IF rk \notin DOMAIN recs
        THEN [state |-> "started", response |-> NoneResponse,
              records |-> (rk :> [status |-> "in_progress",
                                  response |-> NoneResponse]) @@ recs]
        ELSE IF recs[rk].status = "completed" /\ recs[rk].response # NoneResponse
        THEN [state |-> "replay", response |-> recs[rk].response, records |-> recs]
        ELSE [state |-> "in_progress", response |-> NoneResponse, records |-> recs]

\* InMemoryIdempotencyStore.complete
complete(recs, scope, key, response) ==
    LET rk == _build_record_key(scope, key)
    IN  (rk :> [status |-> "completed", response |-> response]) @@ recs

\* InMemoryIdempotencyStore.discard
discard(recs, scope, key) ==
    LET rk == _build_record_key(scope, key)
    IN  IF rk \in DOMAIN recs /\ recs[rk].status = "in_progress"
        THEN [k \in DOMAIN recs \ {rk} |-> recs[k]]
        ELSE recs

Scope(r) == _build_idempotency_scope(req[r].tenant, req[r].kind)
NormKey(r) == _normalize_idempotency_key(req[r].key)

\* complete(...) / discard(...) as the handlers call them: only when
\* should_finalize_idempotency is set.
finalize_complete(r, body) ==
    IF req[r].fin THEN complete(records, Scope(r), NormKey(r), body) ELSE records
finalize_discard(r) ==
    IF req[r].fin THEN discard(records, Scope(r), NormKey(r)) ELSE records

\* ------------------------------------------------------------------ write endpoints
SyncKinds == {"optimize", "manual_parity"}
AsyncKinds == {"optimize_async", "manual_parity_async"}
ParityKinds == {"manual_parity", "manual_parity_async"}

ReplayCode(kind) == IF kind \in AsyncKinds THEN 202 ELSE 200

\* The head of the four write handlers, up to the try block: the key is
\* normalized, begin is called when a key was sent, and the handler either
\* answers (400, replay, 409) or goes on with should_finalize_idempotency
\* set. A sync handler then calls the service; an async one builds its job.
write_begin(r, kind, tenant, key, manual_blueprint_path) ==
    LET nk == _normalize_idempotency_key(key)
        b == begin(records, _build_idempotency_scope(tenant, kind), nk)
        in == [IdleReq EXCEPT !.kind = kind, !.tenant = tenant, !.name = AgentX,
                              !.key = key,
                              !.manual_blueprint_path = manual_blueprint_path]
        go == IF kind \in SyncKinds THEN "service" ELSE "submit"
        answer(code, body) ==
            [in EXCEPT !.pc = "done", !.resp = [code |-> code, body |-> body]]
    IN  /\ req[r].pc = "idle"
        /\ InOrder(r)
        /\ IF nk = <<>>
           THEN /\ req' = [req EXCEPT ![r] =
                            answer(400, [detail |-> "Idempotency-Key must not be empty"])]
                /\ UNCHANGED <<records, tx>>
           ELSE IF nk # None /\ b.state = "replay"
           THEN /\ req' = [req EXCEPT ![r] = answer(ReplayCode(kind), b.response)]
                /\ UNCHANGED <<records, tx>>
           ELSE IF nk # None /\ b.state = "in_progress"
           THEN /\ req' = [req EXCEPT ![r] =
                            answer(409, [detail |-> "idempotent request still in progress"])]
                /\ UNCHANGED <<records, tx>>
           ELSE /\ req' = [req EXCEPT ![r] = [in EXCEPT !.pc = go, !.fin = (nk # None)]]
                /\ records' = IF nk # None THEN b.records ELSE records
                /\ tx' = IF kind \in SyncKinds
                         THEN [tx EXCEPT ![r] = [IdleTx EXCEPT !.pc = "start"]]
                         ELSE tx
        /\ UNCHANGED <<libVars, singleWriter, dbVars, queueVars>>

optimize_agent(r, tenants, keys) ==
    \E t \in tenants, k \in keys : write_begin(r, "optimize", t, k, PathGood)

benchmark_manual_parity(r, tenants, keys, paths) ==
    \E t \in tenants, k \in keys, path \in paths :
        write_begin(r, "manual_parity", t, k, path)

\* ------------------------------------------------------------------ service
\* _build_run_artifact_prefix: f"agents/{agent_name}/{run_id}"
_build_run_artifact_prefix(agent_name, run_id) == <<"agents", agent_name, run_id>>
\* the objects that _write_workflow_artifact and _write_report_artifacts put
RunArtifacts(run_id, agent_name) ==
    [path \in {Append(_build_run_artifact_prefix(agent_name, run_id), file_name) :
                 file_name \in {"workflow.yml", "dataset_report.json",
                                "round_traces.json", "prompt_variants.json",
                                "run_summary.json"}} |-> "bytes"]

\* AgentOptimizationService.benchmark_manual_parity up to its optimize call
\* and AgentOptimizationService.optimize up to the first statement of
\* create_optimization_run: the path is resolved and the blueprint loaded
\* (ValueError, YAMLError), the search runs, the artifacts of the run are
\* written, and get_or_create_agent reads the agents table. For a sync
\* handler the call's argument to_tenant_scoped_agent_name(...) is
\* evaluated first.
optimize_search(r) ==
    /\ tx[r].pc = "start"
    /\ IF req[r].kind \in SyncKinds /\ scoped_name_raises(req[r].tenant)
       THEN /\ tx' = [tx EXCEPT ![r].pc = "err", ![r].error = "HTTPException"]
            /\ UNCHANGED store
       ELSE IF /\ req[r].kind \in ParityKinds
               /\ manual_blueprint_error(req[r].manual_blueprint_path) # "none"
       THEN /\ tx' = [tx EXCEPT
                        ![r].pc = "err",
                        ![r].error = manual_blueprint_error(req[r].manual_blueprint_path)]
            /\ UNCHANGED store
       ELSE /\ tx' = [tx EXCEPT ![r].pc = "run",
                                ![r].agentSeen = (ScopedName(r) \in agents)]
            /\ store' = [store EXCEPT
                            !.objects = RunArtifacts(r, ScopedName(r)) @@ @]
    /\ UNCHANGED <<adapter, search, synth, singleWriter, dbVars, req, records,
                   queueVars>>

\* create_optimization_run: INSERT the agent when get_or_create_agent found
\* none (agents.name is unique), INSERT the run row, flush. The first INSERT
\* opens the write transaction.
create_optimization_run(r) ==
    /\ tx[r].pc = "run"
    /\ LockFree(r)
    /\ IF ~tx[r].agentSeen /\ ScopedName(r) \in agents
       THEN /\ tx' = [tx EXCEPT ![r].pc = "err", ![r].error = "IntegrityError"]
            /\ UNCHANGED dbLock
       ELSE /\ tx' = [tx EXCEPT ![r].pc = "version",
                                ![r].newAgent = ~tx[r].agentSeen]
            /\ dbLock' = IF singleWriter THEN r ELSE dbLock
    /\ UNCHANGED <<libVars, singleWriter, agents, versions, runs, req, records, queueVars>>

\* create_version: next_version reads the committed rows of the agent, the
\* version row is added to the session and flushed.
create_version(r) ==
    /\ tx[r].pc = "version"
    /\ tx' = [tx EXCEPT ![r].pc = "commit",
                        ![r].version = next_version(versions, ScopedName(r))]
    /\ UNCHANGED <<libVars, singleWriter, dbVars, req, records, queueVars>>

\* self._session.commit() of optimize: the pending agent, run and version
\* rows become visible together. A pending agent row whose name was
\* committed by another transaction meanwhile violates the unique index.
commit_optimize(r) ==
    /\ tx[r].pc = "commit"
    /\ IF tx[r].newAgent /\ ScopedName(r) \in agents
       THEN /\ tx' = [tx EXCEPT ![r].pc = "err", ![r].error = "IntegrityError"]
            /\ UNCHANGED <<agents, versions, runs>>
       ELSE /\ tx' = [tx EXCEPT ![r].pc = "ok"]
            /\ agents' = agents \cup {ScopedName(r)}
            /\ runs' = runs \cup {RunRow(r, ScopedName(r))}
            /\ versions' = versions \cup
                  {VersionRow(r, ScopedName(r), tx[r].version, "validated",
                       Cardinality(list_versions(versions, ScopedName(r))) + 1)}
    /\ dbLock' = IF dbLock = r THEN 0 ELSE dbLock
    /\ UNCHANGED <<libVars, singleWriter, req, records, queueVars>>

\* _build_optimize_response_payload / ManualParityResponse
service_payload(r) ==
    IF req[r].kind \in ParityKinds
    THEN [run_id |-> r, parity |-> TRUE]
    ELSE [run_id |-> r, version |-> tx[r].version, agent_name |-> req[r].name]

\* The try block of optimize_agent and benchmark_manual_parity after the
\* service returned or raised: the response is completed, or the slot is
\* discarded (400 for a ValueError of manual parity, else the exception).
sync_finish(r) ==
    /\ req[r].pc = "service"
    /\ tx[r].pc \in {"ok", "err"}
    /\ IF tx[r].pc = "ok"
       THEN /\ records' = finalize_complete(r, service_payload(r))
            /\ req' = Respond(r, 200, service_payload(r))
       ELSE /\ records' = finalize_discard(r)
            /\ req' = Respond(r,
                        IF req[r].kind = "manual_parity" /\ tx[r].error = "ValueError"
                        THEN 400 ELSE 500,
                        [detail |-> tx[r].error])
    /\ UNCHANGED <<libVars, singleWriter, dbVars, tx, queueVars>>

\* ------------------------------------------------------------------ job queue
NoJob == [none |-> TRUE]            \* InMemoryJobQueue.get returned None

JobType(kind) == IF kind = "optimize_async" THEN "optimize" ELSE "manual_parity"

\* AsyncJobRecord as submit builds it
AsyncJobRecord(job_id, job_type, tenant_id, agent_name) ==
    [job_id |-> job_id, job_type |-> job_type, tenant_id |-> tenant_id,
     agent_name |-> agent_name, status |-> "queued", result |-> NoneResponse,
     error |-> "None"]

\* InMemoryJobQueue.get: a copy of the record, or None
get(js, job_id) == IF job_id \in DOMAIN js THEN js[job_id] ELSE NoJob

\* InMemoryJobQueue._set_running
_set_running(js, job_id) ==
    IF job_id \notin DOMAIN js THEN js
    ELSE [js EXCEPT ![job_id].status = "running"]

\* Faulty variant: the result is recorded without the status change.
_set_succeeded_keeps_status(js, job_id, result) ==
    IF job_id \notin DOMAIN js THEN js
    ELSE [js EXCEPT ![job_id].result = result]

\* InMemoryJobQueue._set_succeeded
_set_succeeded(js, job_id, result) ==
    IF job_id \notin DOMAIN js THEN js
    ELSE [js EXCEPT ![job_id].status = "succeeded", ![job_id].result = result,
                    ![job_id].error = "None"]

\* Faulty variant: the failure is recorded without the status change.
_set_failed_keeps_status(js, job_id, error) ==
    IF job_id \notin DOMAIN js THEN js
    ELSE [js EXCEPT ![job_id].error = error]

\* InMemoryJobQueue._set_failed
_set_failed(js, job_id, error) ==
    IF job_id \notin DOMAIN js THEN js
    ELSE [js EXCEPT ![job_id].status = "failed", ![job_id].error = error]

optimize_agent_async(r, tenants, keys) ==
    \E t \in tenants, k \in keys : write_begin(r, "optimize_async", t, k, PathGood)

benchmark_manual_parity_async(r, tenants, keys, paths) ==
    \E t \in tenants, k \in keys, path \in paths :
        write_begin(r, "manual_parity_async", t, k, path)

\* The async handlers between begin and their try block, and the first
\* half of InMemoryJobQueue.submit: to_tenant_scoped_agent_name (its HTTP
\* 500 is raised outside the try block, so nothing is discarded), then the
\* record is built and stored under the lock. The job id (uuid4) is fresh:
\* the id of the submitting request.
submit_stores(r, job) ==
    /\ req[r].pc = "submit"
    /\ IF scoped_name_raises(req[r].tenant)
       THEN /\ req' = Respond(r, 500, [detail |-> "HTTPException"])
            /\ UNCHANGED jobs
       ELSE /\ req' = [req EXCEPT ![r].pc = "enqueue"]
            /\ jobs' = (r :> job) @@ jobs
    /\ UNCHANGED <<libVars, singleWriter, dbVars, tx, records, workQueue, workers>>

submit_record(r) ==
    submit_stores(r, AsyncJobRecord(r, JobType(req[r].kind),
                                    req[r].tenant, req[r].name))

\* _utc_now_iso() as submit reads it, a logical clock: each submit reads
\* a later time than the submits before it.
_utc_now_iso(js) == Cardinality(DOMAIN js)

\* submit with the record's created_at kept
submit_record_timed(r) ==
    submit_stores(r, [created_at |-> _utc_now_iso(jobs)]
                     @@ AsyncJobRecord(r, JobType(req[r].kind),
                                       req[r].tenant, req[r].name))

\* Second half of submit: self._executor.submit(self._execute_job, ...);
\* the live record is returned.
submit_enqueue(r) ==
    /\ req[r].pc = "enqueue"
    /\ workQueue' = Append(workQueue, r)
    /\ req' = [req EXCEPT ![r].pc = "respond"]
    /\ tx' = [tx EXCEPT ![r].waited =
                \/ workQueue # <<>>
                \/ \A w \in Workers : workers[w].pc # "idle"]
    /\ UNCHANGED <<libVars, singleWriter, dbVars, records, jobs, workers>>

\* _to_async_submit_response reads the returned (live) record
_to_async_submit_response(job) ==
    [job_id |-> job.job_id, job_type |-> job.job_type, status |-> job.status,
     tenant_id |-> job.tenant_id, agent_name |-> job.agent_name]

\* The rest of the async handlers' try block: the response is built from
\* the record submit returned and completed in the idempotency store.
async_respond(r) ==
    /\ req[r].pc = "respond"
    /\ records' = finalize_complete(r, _to_async_submit_response(jobs[r]))
    /\ req' = Respond(r, 202, _to_async_submit_response(jobs[r]))
    /\ UNCHANGED <<libVars, singleWriter, dbVars, tx, queueVars>>

\* A pool thread takes the oldest work item (idle threads are
\* interchangeable: the lowest one takes it).
worker_take(w) ==
    /\ workers[w].pc = "idle"
    /\ \A u \in Workers : u < w => workers[u].pc # "idle"
    /\ workQueue # <<>>
    /\ workers' = [workers EXCEPT ![w] = [job |-> Head(workQueue), pc |-> "picked"]]
    /\ workQueue' = Tail(workQueue)
    /\ UNCHANGED <<libVars, singleWriter, dbVars, req, tx, records, jobs>>

\* _execute_job: _set_running, then the runner is invoked; the runner is
\* the service call of the job, in a session of its own.
_execute_job_start(w) ==
    /\ workers[w].pc = "picked"
    /\ jobs' = _set_running(jobs, workers[w].job)
    /\ tx' = [tx EXCEPT ![workers[w].job] =
                [tx[workers[w].job] EXCEPT !.pc = "start",
                                          !.calls = tx[workers[w].job].calls + 1]]
    /\ workers' = [workers EXCEPT ![w].pc = "running"]
    /\ UNCHANGED <<libVars, singleWriter, dbVars, req, records, workQueue>>

\* _execute_job after the runner returned (_set_succeeded) or raised
\* (_set_failed); the thread is free again.
_execute_job_end(w) ==
    /\ workers[w].pc = "running"
    /\ tx[workers[w].job].pc \in {"ok", "err"}
    /\ jobs' = IF tx[workers[w].job].pc = "ok"
               THEN _set_succeeded(jobs, workers[w].job, service_payload(workers[w].job))
               ELSE _set_failed(jobs, workers[w].job, tx[workers[w].job].error)
    /\ workers' = [workers EXCEPT ![w] = [job |-> 0, pc |-> "idle"]]
    /\ UNCHANGED <<libVars, singleWriter, dbVars, req, tx, records, workQueue>>

_to_async_status_response(job) ==
    [job_id |-> job.job_id, job_type |-> job.job_type, status |-> job.status,
     tenant_id |-> job.tenant_id, agent_name |-> job.agent_name,
     result |-> job.result, error |-> job.error]

\* Faulty variant: every caller may read every job.
job_visible_any_tenant(job, tenant_id) == job # NoJob

\* get_async_job_status: "job is None or job.tenant_id != auth.tenant_id"
\* is answered 404
job_visible(job, tenant_id) == job # NoJob /\ job.tenant_id = tenant_id

JobNotFound == [code |-> 404, body |-> [detail |-> "job not found"]]

\* GET /jobs/{job_id}
get_async_job_status(r, tenants, ids) ==
    \E t \in tenants, j \in ids :
        LET in == [IdleReq EXCEPT !.kind = "job_status", !.tenant = t, !.job_id = j]
            job == get(jobs, j)
        IN  /\ req[r].pc = "idle"
            /\ InOrder(r)
            /\ req' = [req EXCEPT ![r] = [in EXCEPT !.pc = "done", !.resp =
                        IF job_visible(job, t)
                        THEN [code |-> 200, body |-> _to_async_status_response(job)]
                        ELSE JobNotFound]]
            /\ UNCHANGED <<libVars, singleWriter, dbVars, tx, records, queueVars>>

\* ------------------------------------------------------------------ read and lifecycle endpoints
\* GET /{agent_name}/versions
list_versions_endpoint(r, tenants, names) ==
    \E t \in tenants, agent_name \in names :
        LET in == [IdleReq EXCEPT !.kind = "list", !.tenant = t, !.name = agent_name]
            rows == list_versions(versions, to_tenant_scoped_agent_name(agent_name, t))
        IN  /\ req[r].pc = "idle"
            /\ InOrder(r)
            /\ req' = [req EXCEPT ![r] = [in EXCEPT !.pc = "done", !.resp =
                        IF scoped_name_raises(t)
                        THEN [code |-> 500, body |-> [detail |-> "HTTPException"]]
                        ELSE [code |-> 200,
                              body |-> [rows |-> {to_version_dict(v) : v \in rows}]]]]
            /\ UNCHANGED <<libVars, singleWriter, dbVars, tx, records, queueVars>>

\* deploy_version / rollback_version call service.deploy / service.rollback,
\* both update_lifecycle(agent_name, version, DEPLOYED). First statement:
\* get_version (scalar_one_or_none: no row is ValueError -> 404, several rows
\* MultipleResultsFound -> 500), then version_row.lifecycle = DEPLOYED in
\* the session.
update_lifecycle_get(r, kind, t, version) ==
    LET in == [IdleReq EXCEPT !.kind = kind, !.tenant = t, !.name = AgentX,
                              !.version = version]
        found == get_version(versions, to_tenant_scoped_agent_name(AgentX, t), version)
        answer(code, detail) ==
            [in EXCEPT !.pc = "done",
                       !.resp = [code |-> code, body |-> [detail |-> detail]]]
    IN  /\ req[r].pc = "idle"
        /\ InOrder(r)
        /\ IF scoped_name_raises(t)
           THEN req' = [req EXCEPT ![r] = answer(500, "HTTPException")] /\ UNCHANGED tx
           ELSE IF found = {}
           THEN req' = [req EXCEPT ![r] = answer(404, "Agent version not found")]
                /\ UNCHANGED tx
           ELSE IF Cardinality(found) > 1
           THEN req' = [req EXCEPT ![r] = answer(500, "MultipleResultsFound")]
                /\ UNCHANGED tx
           ELSE LET row == CHOOSE v \in found : TRUE
                IN  /\ req' = [req EXCEPT ![r] = [in EXCEPT !.pc = "lifecycle"]]
                    /\ tx' = [tx EXCEPT ![r] = [IdleTx EXCEPT
                                !.pc = "list",
                                !.upd = IF row.lifecycle = "deployed" THEN {}
                                        ELSE {<<row.id, "deployed">>}]]
        /\ UNCHANGED <<libVars, singleWriter, dbVars, records, queueVars>>

deploy_version(r, tenants, vs) ==
    \E t \in tenants, v \in vs : update_lifecycle_get(r, "deploy", t, v)

rollback_version(r, tenants, vs) ==
    \E t \in tenants, v \in vs : update_lifecycle_get(r, "rollback", t, v)

\* update_lifecycle, second statement: list_versions and the demotion loop.
update_lifecycle_list(r) ==
    /\ req[r].pc = "lifecycle"
    /\ tx[r].pc = "list"
    /\ tx' = [tx EXCEPT ![r].pc = "flush",
                        ![r].upd = @ \cup demoted(versions, ScopedName(r), req[r].version)]
    /\ UNCHANGED <<libVars, singleWriter, dbVars, req, records, queueVars>>

\* update_lifecycle's flush and the service's commit: the session's pending
\* changes are written by primary key; the handler answers the promoted row.
update_lifecycle_commit(r) ==
    /\ req[r].pc = "lifecycle"
    /\ tx[r].pc = "flush"
    /\ tx[r].upd # {} => LockFree(r)
    /\ versions' = apply_updates(versions, tx[r].upd)
    /\ tx' = [tx EXCEPT ![r].pc = "ok"]
    /\ req' = Respond(r, 200, [version |-> req[r].version, lifecycle |-> "deployed"])
    /\ UNCHANGED <<libVars, singleWriter, dbLock, agents, runs, records, queueVars>>

\* ------------------------------------------------------------------ Chat2GraphSDKRuntimeAdapter
\* Settings as core/config.py admits them: max_retries >= 0, threshold >= 1,
\* reset_seconds > 0.
RetryChoices == {0, 1}
ThresholdChoices == {1, 2}
ResetChoices == {1, 2}

\* The adapter after __init__, the clock at 0, no call in progress.
\* History, not program state: calls counts the execute_case calls;
\* attempts lists the outcomes of the executor invocations of the latest
\* call; log lists what the calls returned; streak counts the calls
\* that failed since the last success; tripped_at is the time of the latest
\* failed call that left streak at or above the threshold.
NewAdapter(retries, threshold, reset) ==
    [sdk_runtime_max_retries |-> retries,
     sdk_runtime_circuit_failure_threshold |-> threshold,
     sdk_runtime_circuit_reset_seconds |-> reset,
     consecutive_failures |-> 0,
     circuit_open_until |-> 0,
     now |-> 0,
     pc |-> "idle", attempt |-> 0, last_category |-> "EXECUTION_ERROR",
     calls |-> 0, attempts |-> <<>>, log |-> <<>>,
     streak |-> 0, tripped_at |-> 0]

AdapterOff == NewAdapter(0, 1, 1)

\* _check_circuit_open returns an error text (not None)
_check_circuit_open(a) == a.now < a.circuit_open_until

\* Faulty variant: the counter survives a success.
_record_success_keeps_count(a) == [a EXCEPT !.circuit_open_until = 0]

\* _record_success
_record_success(a) ==
    [a EXCEPT !.consecutive_failures = 0, !.circuit_open_until = 0]

\* Faulty variant: the circuit opens one failure late.
_record_failure_late(a) ==
    [a EXCEPT !.consecutive_failures = @ + 1,
              !.circuit_open_until =
                  IF a.consecutive_failures + 1 > a.sdk_runtime_circuit_failure_threshold
                  THEN a.now + a.sdk_runtime_circuit_reset_seconds ELSE @]

\* Faulty variant: a failure after the open period starts the count anew.
_record_failure_restarts(a) ==
    LET count == IF a.circuit_open_until > 0 /\ a.now >= a.circuit_open_until
                 THEN 1 ELSE a.consecutive_failures + 1
    IN  [a EXCEPT !.consecutive_failures = count,
                  !.circuit_open_until =
                      IF count >= a.sdk_runtime_circuit_failure_threshold
                      THEN a.now + a.sdk_runtime_circuit_reset_seconds ELSE @]

\* _record_failure
_record_failure(a) ==
    [a EXCEPT !.consecutive_failures = @ + 1,
              !.circuit_open_until =
                  IF a.consecutive_failures + 1 >= a.sdk_runtime_circuit_failure_threshold
                  THEN a.now + a.sdk_runtime_circuit_reset_seconds ELSE @]

\* Faulty variant: the retries are not added to the first attempt.
max_attempts_no_first(a) == a.sdk_runtime_max_retries

\* execute_case: max_attempts = sdk_runtime_max_retries + 1
max_attempts(a) == a.sdk_runtime_max_retries + 1

\* _build_runtime_error: the output starts with RUNTIME_ERROR[category]
_build_runtime_error(category) == <<"RUNTIME_ERROR", category>>

\* _build_runtime_result: the output is the executor's text
_build_runtime_result == <<"ok">>

\* Time passes: the executor runs, execute_case sleeps between attempts,
\* or nothing is called.
clock_tick ==
    /\ adapter.now < MaxNow
    /\ adapter' = [adapter EXCEPT !.now = @ + 1]
    /\ UNCHANGED <<apiVars, search, synth, store>>

\* execute_case up to the attempt loop: the circuit is checked, and an open
\* circuit is answered at once.
execute_case ==
    /\ adapter.pc = "idle"
    /\ adapter.calls < MaxCalls
    /\ IF _check_circuit_open(adapter)
       THEN adapter' = [adapter EXCEPT !.calls = @ + 1, !.attempts = <<>>,
                           !.log = Append(@, _build_runtime_error("CIRCUIT_OPEN"))]
       ELSE adapter' = [adapter EXCEPT !.calls = @ + 1, !.attempts = <<>>,
                           !.pc = "attempt", !.attempt = 1,
                           !.last_category = "EXECUTION_ERROR"]
    /\ UNCHANGED <<apiVars, search, synth, store>>

\* One pass of the attempt loop: _execute_once_with_timeout returns, times
\* out or raises. A success is recorded and returned; after the last
\* failed attempt the failure is recorded and the error returned.
execute_attempt(outcomes) ==
    \E o \in outcomes :
        LET tried == [adapter EXCEPT !.attempts = Append(@, o)]
        IN  /\ adapter.pc = "attempt"
            /\ IF o = "ok"
               THEN adapter' = [_record_success(tried) EXCEPT
                                   !.pc = "idle", !.log = Append(@, _build_runtime_result),
                                   !.streak = 0]
               ELSE IF adapter.attempt < max_attempts(adapter)
               THEN adapter' = [tried EXCEPT !.attempt = @ + 1, !.last_category = o]
               ELSE adapter' = [_record_failure(tried) EXCEPT
                                   !.pc = "idle", !.last_category = o,
                                   !.log = Append(@, _build_runtime_error(o)),
                                   !.streak = @ + 1,
                                   !.tripped_at =
                                       IF adapter.streak + 1 >=
                                            adapter.sdk_runtime_circuit_failure_threshold
                                       THEN adapter.now ELSE @]
            /\ UNCHANGED <<apiVars, search, synth, store>>

\* ------------------------------------------------------------------ AFlowXSearchEngine
NoEval == [none |-> TRUE]           \* an EvaluationSummary | None that is None

Max2(a, b) == IF a >= b THEN a ELSE b
Min2(a, b) == IF a <= b THEN a ELSE b

\* _slice_cases
_slice_cases(cases, budget) == SubSeq(cases, 1, Min2(Len(cases), Max2(1, budget)))

\* "dataset.x_cases or dataset.cases"
or_cases(split, cases) == IF split # <<>> THEN split ELSE cases

\* what the evaluator returns for a blueprint on the cases of a split
EvaluationSummary(blueprint, split, cases, mean_score) ==
    [blueprint |-> blueprint, split |-> split, cases |-> cases,
     mean_score |-> mean_score]

\* _objective: the mean score of the summary; the confidence, latency, cost,
\* complexity and uncertainty terms are 0 here.
_objective(summary) == summary.mean_score

\* _generalization_gap
_generalization_gap(train_summary, val_summary) ==
    Max2(0, train_summary.mean_score - val_summary.mean_score)

\* _model_selection_objective, generalization_penalty 1
_model_selection_objective(config, train_summary, val_summary) ==
    IF ~config.use_holdout THEN _objective(val_summary)
    ELSE _objective(val_summary) - _generalization_gap(train_summary, val_summary)

\* Faulty variant: the latest candidate always becomes the best.
update_best_latest(best, child) == child

\* "if child_objective > best_objective: best_objective = child_objective"
update_best(best, child) == IF child > best THEN child ELSE best

\* Faulty variant: a round that improves does not reset the count.
count_no_improve_sticky(no_improve_rounds, round_improvement, config) ==
    IF round_improvement < config.min_improvement
    THEN no_improve_rounds + 1 ELSE no_improve_rounds

\* the update of no_improve_rounds at the end of a round
count_no_improve(no_improve_rounds, round_improvement, config) ==
    IF round_improvement < config.min_improvement
    THEN no_improve_rounds + 1 ELSE 0

\* "if self._config.use_holdout and test_cases"
runs_test(config, test_cases) == config.use_holdout /\ test_cases # <<>>

SearchConfig(rounds, expansions, patience, min_improvement, use_holdout) ==
    [rounds |-> rounds, expansions_per_round |-> expansions,
     patience |-> patience, min_improvement |-> min_improvement,
     use_holdout |-> use_holdout,
     evaluation_budget |-> 1, validation_budget |-> 1, test_budget |-> 1]

\* a dataset with its three splits, and one whose test split is empty
DatasetSplit == [cases |-> <<"c1", "c2", "c3">>, train_cases |-> <<"c1">>,
                 val_cases |-> <<"c2">>, test_cases |-> <<"c3">>]
DatasetNoTest == [cases |-> <<"c1", "c2">>, train_cases |-> <<"c1">>,
                  val_cases |-> <<"c2">>, test_cases |-> <<>>]

\* An optimize call about to start. History, not program state:
\* round_log lists, per finished round, the improvement of
\* best_by_val_objective over the round; test_runs lists the evaluations on
\* split "test" with the program position at which they ran.
NewSearch(config, dataset) ==
    [pc |-> "new", config |-> config, dataset |-> dataset,
     train_cases |-> <<>>, val_cases |-> <<>>, test_cases |-> <<>>,
     history |-> <<>>, round_traces |-> <<>>,
     best_by_train_objective |-> 0, best_by_train_eval |-> NoEval,
     best_by_val_objective |-> 0, best_by_val_blueprint |-> 0,
     best_by_val_eval |-> NoEval,
     no_improve_rounds |-> 0, trace_idx |-> 0, round_idx |-> 0,
     expansion_idx |-> 0, round_best_before |-> 0,
     result |-> NoEval, round_log |-> <<>>, test_runs |-> <<>>]

SearchOff == [NewSearch(SearchConfig(1, 1, 1, 1, TRUE), DatasetSplit)
                 EXCEPT !.pc = "off"]

\* optimize up to the round loop: the splits are sliced, the root blueprint
\* (id 0) is evaluated on train, and on val with holdout.
optimize_root(scores) ==
    \E t \in scores, v \in scores :
        LET c == search.config
            d == search.dataset
            train == _slice_cases(or_cases(d.train_cases, d.cases), c.evaluation_budget)
            val == IF c.use_holdout
                   THEN _slice_cases(or_cases(d.val_cases, d.cases), c.validation_budget)
                   ELSE train
            test == IF c.use_holdout
                    THEN _slice_cases(or_cases(d.test_cases, d.cases), c.test_budget)
                    ELSE <<>>
            root_train_eval == EvaluationSummary(0, "train", train, t)
            root_val_eval == IF c.use_holdout
                             THEN EvaluationSummary(0, "val", val, v)
                             ELSE root_train_eval
        IN  /\ search.pc = "new"
            /\ train # <<>>
            /\ search' = [search EXCEPT
                  !.pc = "round", !.round_idx = 1,
                  !.train_cases = train, !.val_cases = val, !.test_cases = test,
                  !.history = IF c.use_holdout
                              THEN <<root_train_eval, root_val_eval>>
                              ELSE <<root_train_eval>>,
                  !.best_by_train_eval = root_train_eval,
                  !.best_by_train_objective = _objective(root_train_eval),
                  !.best_by_val_blueprint = 0,
                  !.best_by_val_eval = root_val_eval,
                  !.best_by_val_objective =
                      _model_selection_objective(c, root_train_eval, root_val_eval)]
            /\ UNCHANGED <<apiVars, adapter, synth, store>>

\* The top of a round: a node is selected (the choice of _select decides
\* only which blueprint is mutated, and every candidate's scores are open
\* here) and round_best_before is taken.
optimize_round ==
    /\ search.pc = "round"
    /\ search' = [search EXCEPT
          !.pc = "expand", !.expansion_idx = 0,
          !.round_best_before = search.best_by_val_objective]
    /\ UNCHANGED <<apiVars, adapter, synth, store>>

\* One expansion: the candidate (blueprint id trace_idx + 1) is evaluated,
\* the bests are updated and a SearchRoundTrace is appended.
optimize_expand(scores) ==
    \E t \in scores, v \in scores :
        LET c == search.config
            id == search.trace_idx + 1
            child_train_eval == EvaluationSummary(id, "train", search.train_cases, t)
            child_val_eval == IF c.use_holdout
                              THEN EvaluationSummary(id, "val", search.val_cases, v)
                              ELSE child_train_eval
            child_train_objective == _objective(child_train_eval)
            child_val_objective ==
                _model_selection_objective(c, child_train_eval, child_val_eval)
            best_train == update_best(search.best_by_train_objective, child_train_objective)
            best_val == update_best(search.best_by_val_objective, child_val_objective)
            trace == [round_num |-> id,
                      train_objective |-> child_train_objective,
                      val_objective |-> child_val_objective,
                      best_train_objective |-> best_train,
                      best_val_objective |-> best_val,
                      regret |-> Max2(0, best_val - child_val_objective),
                      generalization_gap |->
                          IF c.use_holdout
                          THEN _generalization_gap(child_train_eval, child_val_eval)
                          ELSE 0]
        IN  /\ search.pc = "expand"
            /\ search' = [search EXCEPT
                  !.history = IF c.use_holdout
                              THEN @ \o <<child_train_eval, child_val_eval>>
                              ELSE Append(@, child_train_eval),
                  !.best_by_train_objective = best_train,
                  !.best_by_train_eval =
                      IF child_train_objective > search.best_by_train_objective
                      THEN child_train_eval ELSE @,
                  !.best_by_val_objective = best_val,
                  !.best_by_val_blueprint =
                      IF child_val_objective > search.best_by_val_objective
                      THEN id ELSE @,
                  !.best_by_val_eval =
                      IF child_val_objective > search.best_by_val_objective
                      THEN child_val_eval ELSE @,
                  !.trace_idx = id,
                  !.round_traces = Append(@, trace),
                  !.expansion_idx = @ + 1,
                  !.pc = IF search.expansion_idx + 1 >= c.expansions_per_round
                         THEN "round_end" ELSE "expand"]
            /\ UNCHANGED <<apiVars, adapter, synth, store>>

\* The end of a round: no_improve_rounds is updated and the loop goes on,
\* breaks, or has done its last round.
optimize_round_end ==
    LET c == search.config
        round_improvement == search.best_by_val_objective - search.round_best_before
        n == count_no_improve(search.no_improve_rounds, round_improvement, c)
    IN  /\ search.pc = "round_end"
        /\ search' = [search EXCEPT
              !.no_improve_rounds = n,
              !.round_log = Append(@, round_improvement),
              !.round_idx = IF n >= c.patience \/ search.round_idx >= c.rounds
                            THEN @ ELSE @ + 1,
              !.pc = IF n >= c.patience \/ search.round_idx >= c.rounds
                     THEN "finalize" ELSE "round"]
        /\ UNCHANGED <<apiVars, adapter, synth, store>>

\* After the loop: the test split is evaluated on best_by_val_blueprint
\* when runs_test says so, and the SearchResult is built.
optimize_finalize(scores) ==
    \E m \in scores :
        LET c == search.config
            test_eval == IF runs_test(c, search.test_cases)
                         THEN EvaluationSummary(search.best_by_val_blueprint, "test",
                                                search.test_cases, m)
                         ELSE NoEval
        IN  /\ search.pc = "finalize"
            /\ search' = [search EXCEPT
                  !.pc = "done",
                  !.history = IF test_eval # NoEval THEN Append(@, test_eval) ELSE @,
                  !.test_runs = IF test_eval # NoEval
                                THEN Append(@, [eval |-> test_eval, at |-> search.pc])
                                ELSE @,
                  !.result =
                      [best_blueprint |-> search.best_by_val_blueprint,
                       best_evaluation |-> search.best_by_train_eval,
                       validation_evaluation |->
                           IF c.use_holdout THEN search.best_by_val_eval ELSE NoEval,
                       test_evaluation |-> test_eval,
                       round_traces |-> search.round_traces]]
            /\ UNCHANGED <<apiVars, adapter, synth, store>>

\* ------------------------------------------------------------------ blueprints and their mutations
\* A Python list is an object: the heap maps a reference (a position) to
\* the items of the list, and a WorkflowBlueprint holds references for
\* tools, actions, leader_actions, mutation_trace and for the actions of
\* each operator. Two fields that hold the same reference are the same
\* list: an append through one is seen through the other. An expert is the
\* list of its operators; a mutation tag "mode:op(arg)" is <<mode, op, arg>>.
ActionSpec(name, tools) == [name |-> name, tools |-> tools]
OperatorBlueprint(name, instruction, actions) ==
    [name |-> name, instruction |-> instruction, actions |-> actions]
WorkflowBlueprint(blueprint_id, topology, tools, actions, experts, leader_actions, parent_id, mutation_trace) ==
    [blueprint_id |-> blueprint_id, topology |-> topology, tools |-> tools,
     actions |-> actions, experts |-> experts, leader_actions |-> leader_actions,
     parent_id |-> parent_id, mutation_trace |-> mutation_trace]
\* a function's results: the heap after it and the blueprint it returns
Built(heap, blueprint) == [heap |-> heap, blueprint |-> blueprint]

Items(list) == {list[i] : i \in DOMAIN list}
\* f"use_{tool.name.lower()}"
use_(tool_name) ==
    CASE tool_name = "A" -> "use_a"
      [] tool_name = "B" -> "use_b"
      [] tool_name = "C" -> "use_c"
      [] OTHER -> "use_"

\* build_topology_operators: every operator is given the list seed_actions
\* itself
build_topology_operators(topology, seed_actions) ==
    IF topology = "linear"
    THEN <<OperatorBlueprint("linear_worker", "initial", seed_actions)>>
    ELSE IF topology = "planner_worker_reviewer"
    THEN <<OperatorBlueprint("planner", "initial", seed_actions),
           OperatorBlueprint("worker", "initial", seed_actions),
           OperatorBlueprint("reviewer", "initial", seed_actions)>>
    ELSE <<OperatorBlueprint("router", "initial", seed_actions),
           OperatorBlueprint("worker_query", "initial", seed_actions),
           OperatorBlueprint("worker_analysis", "initial", seed_actions),
           OperatorBlueprint("synthesizer", "initial", seed_actions)>>

\* build_initial_blueprint: four new lists (tools, actions, leader_actions,
\* mutation_trace) and one expert whose operators all hold leader_actions
build_initial_blueprint(heap, blueprint_id, selected_tools, topology) ==
    LET actions == [i \in DOMAIN selected_tools |->
                      ActionSpec(use_(selected_tools[i]), <<selected_tools[i]>>)]
        leader_actions == [i \in 1..Min2(2, Len(selected_tools)) |->
                             use_(selected_tools[i])]
        at == Len(heap)
    IN  Built(heap \o <<selected_tools, actions, leader_actions, <<>> >>,
              WorkflowBlueprint(blueprint_id, topology, at + 1, at + 2,
                  <<build_topology_operators(topology, at + 3)>>, at + 3, 0, at + 4))

\* the lists a blueprint reaches
Refs(blueprint) ==
    {blueprint.tools, blueprint.actions, blueprint.leader_actions,
     blueprint.mutation_trace}
    \cup UNION {{blueprint.experts[e][o].actions : o \in DOMAIN blueprint.experts[e]} :
                  e \in DOMAIN blueprint.experts}
Rank(x, S) == Cardinality({y \in S : y <= x})
SetMin(S) == CHOOSE m \in S : \A n \in S : m <= n

\* Faulty variant: copy.copy, the candidate holds the parent's lists.
deepcopy_shallow(heap, blueprint) == Built(heap, blueprint)

\* copy.deepcopy: every list the blueprint reaches is copied once, so two
\* fields that held one list hold one copy
deepcopy(heap, blueprint) ==
    LET refs == Refs(blueprint)
        to(x) == Len(heap) + Rank(x, refs)
        copies == [i \in 1..Cardinality(refs) |->
                     heap[CHOOSE x \in refs : Rank(x, refs) = i]]
        experts == blueprint.experts
    IN  Built(heap \o copies,
              [blueprint EXCEPT
                  !.tools = to(blueprint.tools),
                  !.actions = to(blueprint.actions),
                  !.leader_actions = to(blueprint.leader_actions),
                  !.mutation_trace = to(blueprint.mutation_trace),
                  !.experts = [e \in DOMAIN experts |->
                                 [o \in DOMAIN experts[e] |->
                                    [experts[e][o] EXCEPT
                                        !.actions = to(experts[e][o].actions)]]]])

\* what _mutate returns, with the heap after it
Mutated(heap, blueprint, mutation) ==
    [heap |-> heap, blueprint |-> blueprint, mutation |-> mutation]

\* _mutate_prompt
_mutate_prompt(heap, parent_blueprint, blueprint_id) ==
    LET copy == deepcopy(heap, parent_blueprint)
        candidate == [copy.blueprint EXCEPT !.blueprint_id = blueprint_id]
    IN  IF candidate.experts = <<>> \/ candidate.experts[1] = <<>>
        THEN Mutated(copy.heap, candidate, <<"prompt", "skip-empty", "">>)
        ELSE Mutated(copy.heap,
                     [candidate EXCEPT !.experts[1][1].instruction = "optimized"],
                     <<"prompt", "optimize", candidate.experts[1][1].name>>)

\* "for expert in candidate.experts: for operator in expert.operators:
\* if action_name not in operator.actions: append; break", from expert e on
RECURSIVE append_to_operators(_, _, _, _)
append_to_operators(heap, experts, e, action_name) ==
    IF e > Len(experts) THEN heap
    ELSE LET lacking == {o \in DOMAIN experts[e] :
                            action_name \notin Items(heap[experts[e][o].actions])}
         IN  append_to_operators(
                 IF lacking = {} THEN heap
                 ELSE [heap EXCEPT ![experts[e][SetMin(lacking)].actions] =
                                      Append(@, action_name)],
                 experts, e + 1, action_name)

\* Faulty variant: every action may be removed.
removable_any(actions, leader_actions) == actions

\* "[action for action in candidate.actions if action.name not in
\* candidate.leader_actions]"
removable(actions, leader_actions) ==
    LET free(action) == action.name \notin Items(leader_actions)
    IN  SelectSeq(actions, free)

\* the operators before expert e, in the order of the two loops
RECURSIVE operators_before(_, _)
operators_before(experts, e) ==
    IF e <= 1 THEN 0 ELSE operators_before(experts, e - 1) + Len(experts[e - 1])
\* "operator.actions = [name for name in operator.actions if name != removed]"
\* of every operator from expert e on: the new lists
RECURSIVE lists_without(_, _, _, _)
lists_without(heap, experts, e, name) ==
    LET other(n) == n # name
    IN  IF e > Len(experts) THEN <<>>
        ELSE [o \in DOMAIN experts[e] |->
                 SelectSeq(heap[experts[e][o].actions], other)]
             \o lists_without(heap, experts, e + 1, name)

\* _mutate_tools; ranked is what tool_selector.rank makes of the catalog
_mutate_tools(heap, parent_blueprint, ranked, blueprint_id) ==
    LET copy == deepcopy(heap, parent_blueprint)
        candidate == [copy.blueprint EXCEPT !.blueprint_id = blueprint_id]
        h == copy.heap
        top_k == Max2(1, Len(h[candidate.tools]) + 1)
        ranked_tools == SubSeq(ranked, 1, Min2(Len(ranked), Max2(1, top_k)))
        existing == Items(h[candidate.tools])
        fresh == {i \in DOMAIN ranked_tools : ranked_tools[i] \notin existing}
        new_tool == ranked_tools[SetMin(fresh)]
        action_name == use_(new_tool)
        added == [h EXCEPT
                    ![candidate.tools] = Append(@, new_tool),
                    ![candidate.actions] = Append(@, ActionSpec(action_name, <<new_tool>>))]
        candidates == removable(h[candidate.actions], h[candidate.leader_actions])
        removed == candidates[Len(candidates)]
        other(action) == action.name # removed.name
        at == Len(h)
        experts == candidate.experts
    IN  IF fresh # {}
        THEN Mutated(append_to_operators(added, experts, 1, action_name),
                     candidate, <<"tool", "add", new_tool>>)
        ELSE IF candidates # <<>>
        THEN Mutated(h \o <<SelectSeq(h[candidate.actions], other)>>
                       \o lists_without(h, experts, 1, removed.name),
                     [candidate EXCEPT
                        !.actions = at + 1,
                        !.experts = [e \in DOMAIN experts |->
                                       [o \in DOMAIN experts[e] |->
                                          [experts[e][o] EXCEPT !.actions =
                                             at + 1 + operators_before(experts, e) + o]]]],
                     <<"tool", "remove", removed.name>>)
        ELSE Mutated(h, candidate, <<"tool", "noop", "">>)

\* "expert.operators = build_topology_operators(topology, seed_actions)" of
\* every expert from e on; an expert without operators gets a new list
RECURSIVE rebuild_operators(_, _, _, _)
rebuild_operators(heap, experts, e, topology) ==
    IF e > Len(experts) THEN [heap |-> heap, experts |-> experts]
    ELSE IF experts[e] # <<>>
    THEN rebuild_operators(heap,
             [experts EXCEPT ![e] = build_topology_operators(topology, experts[e][1].actions)],
             e + 1, topology)
    ELSE rebuild_operators(Append(heap, <<>>),
             [experts EXCEPT ![e] = build_topology_operators(topology, Len(heap) + 1)],
             e + 1, topology)

order == <<"linear", "planner_worker_reviewer", "router_parallel">>
\* _mutate_topology
_mutate_topology(heap, parent_blueprint, blueprint_id) ==
    LET copy == deepcopy(heap, parent_blueprint)
        index == CHOOSE i \in DOMAIN order : order[i] = copy.blueprint.topology
        topology == order[(index % Len(order)) + 1]
        rebuilt == rebuild_operators(copy.heap, copy.blueprint.experts, 1, topology)
    IN  Mutated(rebuilt.heap,
                [copy.blueprint EXCEPT !.blueprint_id = blueprint_id,
                                       !.topology = topology,
                                       !.experts = rebuilt.experts],
                <<"topology", "switch", topology>>)

\* the list modes of _mutate
mutation_modes(config, tool_catalog) ==
    (IF config.enable_prompt_mutation THEN <<"prompt">> ELSE <<>>)
    \o (IF config.enable_tool_mutation /\ tool_catalog # <<>> THEN <<"tool">> ELSE <<>>)
    \o (IF config.enable_topology_mutation THEN <<"topology">> ELSE <<>>)

\* Faulty variant: the mode depends on the round only.
mode_of_round(modes, round_idx, expansion_idx) == modes[(round_idx % Len(modes)) + 1]

\* "modes[(round_idx + expansion_idx) % len(modes)]"
mode_of(modes, round_idx, expansion_idx) ==
    modes[((round_idx + expansion_idx) % Len(modes)) + 1]

\* _mutate
_mutate(heap, parent_blueprint, config, tool_catalog, ranked, round_idx, expansion_idx, blueprint_id) ==
    LET modes == mutation_modes(config, tool_catalog)
        copy == deepcopy(heap, parent_blueprint)
    IN  IF modes = <<>>
        THEN Mutated(copy.heap, [copy.blueprint EXCEPT !.blueprint_id = blueprint_id],
                     <<"mutation", "disabled", "">>)
        ELSE IF mode_of(modes, round_idx, expansion_idx) = "prompt"
        THEN _mutate_prompt(heap, parent_blueprint, blueprint_id)
        ELSE IF mode_of(modes, round_idx, expansion_idx) = "tool"
        THEN _mutate_tools(heap, parent_blueprint, ranked, blueprint_id)
        ELSE _mutate_topology(heap, parent_blueprint, blueprint_id)

\* ------------------------------------------------------------------ the search tree
\* AFlowXSearchEngine.optimize, the part of its locals that the tree and
\* the blueprints take: in the specifications of the tree the variable
\* search holds these. nodes and parent_map are dicts in insertion order,
\* a node_id is the node's position, a blueprint_id the blueprint's position
\* in blueprints (uuid4 gives each a new one), and None is 0.
SearchNode(node_id, blueprint, parent_id) ==
    [node_id |-> node_id, blueprint |-> blueprint, parent_id |-> parent_id,
     visits |-> 0, value_sum |-> 0, best_score |-> -1, children_ids |-> <<>>]

\* _backpropagate, from cursor up
RECURSIVE _backpropagate(_, _, _, _)
_backpropagate(cursor, reward, nodes, parent_map) ==
    IF cursor = 0 THEN nodes
    ELSE _backpropagate(parent_map[cursor], reward,
             [nodes EXCEPT ![cursor].visits = @ + 1,
                           ![cursor].value_sum = @ + reward,
                           ![cursor].best_score = Max2(@, reward)],
             parent_map)

\* _select, the nodes it can return: the first node with visits == 0, or
\* else the node of the highest UCB score, which the rewards, the weights
\* and the novelty bonus can give to any node
_select(nodes) ==
    LET unvisited == {n \in DOMAIN nodes : nodes[n].visits = 0}
    IN  IF unvisited # {} THEN {SetMin(unvisited)} ELSE DOMAIN nodes

TreeConfig(rounds, expansions_per_round, enable_prompt_mutation, enable_tool_mutation, enable_topology_mutation) ==
    [rounds |-> rounds, expansions_per_round |-> expansions_per_round,
     enable_prompt_mutation |-> enable_prompt_mutation,
     enable_tool_mutation |-> enable_tool_mutation,
     enable_topology_mutation |-> enable_topology_mutation]

\* An optimize call about to start on a root blueprint. History, not
\* program state: rewards lists the reward each node was created with,
\* selections the visits _select found at each call.
NewTree(config, tool_catalog, root) ==
    [pc |-> "new", config |-> config, tool_catalog |-> tool_catalog,
     heap |-> root.heap, blueprints |-> <<root.blueprint>>,
     nodes |-> <<>>, parent_map |-> <<>>,
     round_idx |-> 0, expansion_idx |-> 0, selected |-> 0,
     round_traces |-> <<>>, rewards |-> <<>>, selections |-> <<>>]

\* optimize up to the round loop: the root node is made and the root
\* objective is backpropagated
tree_root(rewards) ==
    \E reward \in rewards :
        /\ search.pc = "new"
        /\ search' = [search EXCEPT
              !.pc = IF search.config.rounds >= 1 THEN "select" ELSE "done",
              !.round_idx = 1,
              !.nodes = _backpropagate(1, reward, <<SearchNode(1, 1, 0)>>, <<0>>),
              !.parent_map = <<0>>,
              !.rewards = <<reward>>]
        /\ UNCHANGED <<apiVars, adapter, synth, store>>

\* the top of a round: _select
tree_select ==
    \E node \in _select(search.nodes) :
        /\ search.pc = "select"
        /\ search' = [search EXCEPT
              !.pc = "expand", !.selected = node, !.expansion_idx = 0,
              !.selections = Append(@, [n \in DOMAIN search.nodes |->
                                          search.nodes[n].visits])]
        /\ UNCHANGED <<apiVars, adapter, synth, store>>

\* One expansion: _mutate, parent_id and mutation_trace of the candidate,
\* its node, _backpropagate and the round trace; after the last expansion
\* of a round the loop goes on, breaks (patience) or has done its last round.
tree_expand(rewards, breaks) ==
    \E reward \in rewards, break \in breaks,
       p \in Permutations(DOMAIN search.tool_catalog) :
        LET selected == search.nodes[search.selected]
            parent_blueprint == search.blueprints[selected.blueprint]
            ranked == [i \in DOMAIN search.tool_catalog |-> search.tool_catalog[p[i]]]
            mutated == _mutate(search.heap, parent_blueprint, search.config,
                               search.tool_catalog, ranked, search.round_idx,
                               search.expansion_idx, Len(search.blueprints) + 1)
            candidate_blueprint ==
                [mutated.blueprint EXCEPT !.parent_id = parent_blueprint.blueprint_id]
            child == SearchNode(Len(search.nodes) + 1, candidate_blueprint.blueprint_id,
                                selected.node_id)
            parent_map == Append(search.parent_map, selected.node_id)
            nodes == Append([search.nodes EXCEPT ![selected.node_id].children_ids =
                                                     Append(@, child.node_id)], child)
            last == search.expansion_idx + 1 >= search.config.expansions_per_round
            over == break \/ search.round_idx >= search.config.rounds
        IN  /\ search.pc = "expand"
            /\ search' = [search EXCEPT
                  !.heap = [mutated.heap EXCEPT ![candidate_blueprint.mutation_trace] =
                                                   Append(@, mutated.mutation)],
                  !.blueprints = Append(@, candidate_blueprint),
                  !.nodes = _backpropagate(child.node_id, reward, nodes, parent_map),
                  !.parent_map = parent_map,
                  !.rewards = Append(@, reward),
                  !.round_traces = Append(@,
                      [round_idx |-> search.round_idx,
                       expansion_idx |-> search.expansion_idx,
                       selected_node_id |-> selected.node_id,
                       selected_blueprint_id |-> parent_blueprint.blueprint_id,
                       mutation |-> mutated.mutation]),
                  !.expansion_idx = @ + 1,
                  !.round_idx = IF last /\ ~over THEN @ + 1 ELSE @,
                  !.pc = IF ~last THEN "expand" ELSE IF over THEN "done" ELSE "select"]
            /\ UNCHANGED <<apiVars, adapter, synth, store>>

\* ------------------------------------------------------------------ the endpoints' auth dependency
\* routers/agents.py: each endpoint declares Depends(require_permission(p))
endpoint_permission(kind) ==
    CASE kind \in {"optimize", "optimize_async"} -> "optimize:run"
      [] kind \in {"manual_parity", "manual_parity_async"} -> "parity:run"
      [] kind \in {"list", "job_status"} -> "versions:read"
      [] kind = "deploy" -> "versions:deploy"
      [] kind = "rollback" -> "versions:rollback"
EndpointKinds == {"optimize", "optimize_async", "manual_parity", "manual_parity_async",
                  "list", "job_status", "deploy", "rollback"}

\* the dependency as FastAPI resolves it for request r on an endpoint
auth_dependency(r, kind) ==
    require_permission(endpoint_permission(kind),
                       get_auth_context(req[r].auth_enabled, req[r].x_api_key,
                                        req[r].authorization))
\* the tenant the handler body is called with: none when the dependency raises
auth_tenants(r, kind) ==
    IF auth_dependency(r, kind).status_code = 200
    THEN {auth_dependency(r, kind).auth.tenant_id}
    ELSE {}
\* The dependency raises: FastAPI answers with the HTTPException and the
\* handler body is not called.
dependency_raises(r, kinds) ==
    \E kind \in kinds :
        LET auth == auth_dependency(r, kind)
        IN  /\ req[r].pc = "idle"
            /\ InOrder(r)
            /\ auth.status_code # 200
            /\ req' = [req EXCEPT ![r] = [@ EXCEPT
                        !.kind = kind, !.pc = "done",
                        !.resp = [code |-> auth.status_code,
                                  body |-> [detail |-> "HTTPException"]]]]
            /\ UNCHANGED <<libVars, singleWriter, dbVars, tx, records, queueVars>>

\* ------------------------------------------------------------------ specifications
\* n requests; the database is SQLite (one writer at a time, the default
\* database_url) or a server with concurrent writers.
SqliteOnly == {TRUE}
\* The job queue is built with max_workers threads, or with fewer: a
\* thread that is not in the pool is "off".
DefaultPool == {max_workers}
InitApi(n, modes, pools) ==
    /\ singleWriter \in modes
    /\ dbLock = 0
    /\ agents = {}
    /\ versions = {}
    /\ runs = {}
    /\ req = [r \in 1..n |-> IdleReq]
    /\ tx = [r \in 1..n |-> IdleTx]
    /\ records = <<>>
    /\ jobs = <<>>
    /\ workQueue = <<>>
    /\ \E p \in pools :
          workers = [w \in Workers |-> [job |-> 0,
                                        pc |-> IF w <= p THEN "idle" ELSE "off"]]

\* ------------------------------------------------------------------ dataset synthesizer
\* Ratios are whole percents: 60 stands for 0.6.
\* DynamicDatasetSynthesizer.__init__: the three ratios must sum to 1.0
ratios_accepted(train_ratio, val_ratio, test_ratio) ==
    train_ratio + val_ratio + test_ratio = 100
\* the default triple and two more that Settings admits
\* (0.4 < train < 0.9, 0.05 < val < 0.4, 0.05 < test < 0.4)
RatioChoices == {<<60, 20, 20>>, <<85, 7, 8>>, <<50, 25, 25>>}

\* str.lower() on the strings of the model
Lower(str) ==
    CASE str = "Node" -> "node"
      [] str = "RELATED_TO" -> "related_to"
      [] str = "Person" -> "person"
      [] str = "KNOWS" -> "knows"
      [] OTHER -> str

\* the keywords of _infer_intents that occur in a task description
KeywordsIn(task_desc) ==
    CASE task_desc = "query" -> {"query"}
      [] task_desc = "import" -> {"import"}
      [] task_desc = "import and query" -> {"import", "query"}
      [] OTHER -> {}
any_word(task_desc, words) == KeywordsIn(task_desc) \cap words # {}
\* list[:n]
Head2(list, n) == SubSeq(list, 1, Min2(n, Len(list)))
_infer_intents(task_desc) ==
    LET include(intent, words) ==
            IF any_word(task_desc, words) THEN <<intent>> ELSE <<>>
        intents ==
            include("QUERY", {"query", "cypher"})
            \o include("ANALYTICS", {"analytics", "analysis", "rank"})
            \o include("MODELING", {"model", "schema"})
            \o include("IMPORT", {"import", "etl", "ingest"})
            \o include("QA", {"qa", "summarize", "explain"})
    IN  Head2(IF intents = <<>> THEN <<"QUERY", "ANALYTICS">> ELSE intents, 2)

\* A template is named by its first word.
template_map(intent) ==
    CASE intent = "QUERY" -> <<"Find", "Which">>
      [] intent = "ANALYTICS" -> <<"Run", "Identify">>
      [] intent = "MODELING" -> <<"Design", "Propose">>
      [] intent = "IMPORT" -> <<"Create", "Define">>
      [] intent = "QA" -> <<"Explain", "Provide">>
RECURSIVE _build_templates(_)
_build_templates(intents) ==
    IF intents = <<>> THEN <<>>
    ELSE template_map(Head(intents)) \o _build_templates(Tail(intents))

\* question_template.format(label=..., relation=...); negative is the
\* (label, relation) pair of the appended hard-negative sentence, or <<>>
Question(template, label, relation) ==
    [template |-> template, label |-> label, relation |-> relation,
     negative |-> <<>>]
_paraphrase(question) ==
    LET replaced(old, new) ==
            IF question.template = old THEN <<[question EXCEPT !.template = new]>>
            ELSE <<>>
    IN  replaced("Find", "Locate") \o replaced("Which", "List")
        \o replaced("Explain", "Summarize")
\* " ".join(question.lower().split())
DedupKey(question) ==
    [template |-> question.template,
     label |-> Lower(question.label), relation |-> Lower(question.relation),
     negative |-> [i \in DOMAIN question.negative |-> Lower(question.negative[i])]]
RECURSIVE _deduplicate_from(_, _)
_deduplicate_from(questions, seen) ==
    IF questions = <<>> THEN <<>>
    ELSE IF DedupKey(Head(questions)) \in seen
         THEN _deduplicate_from(Tail(questions), seen)
         ELSE <<Head(questions)>>
              \o _deduplicate_from(Tail(questions),
                                   seen \cup {DedupKey(Head(questions))})
_deduplicate(questions) == _deduplicate_from(questions, {})

_get_list(payload, key, fallback) ==
    IF payload[key] = None THEN fallback
    ELSE SelectSeq(payload[key], LAMBDA item : item # "")
\* a snapshot without labels and relations, and one with one of each
SchemaEmpty == [labels |-> None, relations |-> None]
SchemaOneLabel == [labels |-> <<"Person">>, relations |-> <<"KNOWS">>]

Occurrences(list, value) == Cardinality({i \in DOMAIN list : list[i] = value})
Range(list) == {list[i] : i \in DOMAIN list}
\* random.sample(list, k): the values at k distinct positions, in any order
SampleOutcomes(list, k) ==
    {sampled \in [1..k -> Range(list)] :
        \A value \in Range(list) :
            Occurrences(sampled, value) <= Occurrences(list, value)}
_hard_negative_questions(sampled, labels, relations) ==
    [idx \in DOMAIN sampled |->
        [sampled[idx] EXCEPT
            !.negative = <<labels[((idx - 1) % Len(labels)) + 1],
                           relations[((idx - 1) % Len(relations)) + 1]>>]]
sample_size(questions) == Min2(Max2(2, Len(questions) \div 4), Len(questions))

Levels == <<"L1", "L2", "L3", "L4">>
SyntheticCase(dataset_name, idx, question, intents) ==
    [case_id |-> <<dataset_name, idx>>, question |-> question,
     intent |-> intents[((idx - 1) % Len(intents)) + 1],
     difficulty |-> Levels[((idx - 1) % Len(Levels)) + 1]]

\* _split_cases after the shuffle: int(total * ratio) cuts, then the three
\* repairs of an empty split
split_shuffled(shuffled, train_ratio, val_ratio) ==
    LET total == Len(shuffled)
        train_end == (total * train_ratio) \div 100
        val_end == train_end + (total * val_ratio) \div 100
        train0 == SubSeq(shuffled, 1, train_end)
        val0 == SubSeq(shuffled, train_end + 1, val_end)
        test0 == SubSeq(shuffled, val_end + 1, total)
        train1 == IF train0 = <<>> /\ total > 0 THEN <<shuffled[1]>> ELSE train0
        fill_val == val0 = <<>> /\ total > 1
        val1 == IF fill_val THEN <<shuffled[2]>> ELSE val0
        test1 == IF fill_val
                 THEN SelectSeq(test0, LAMBDA c : c.case_id # shuffled[2].case_id)
                 ELSE test0
        fill_test == test1 = <<>> /\ total > 2
        test2 == IF fill_test THEN <<shuffled[3]>> ELSE test1
        train2 == IF fill_test
                  THEN SelectSeq(train1, LAMBDA c : c.case_id # shuffled[3].case_id)
                  ELSE train1
    IN  [train_cases |-> train2, val_cases |-> val1, test_cases |-> test2]

NoDataset == [none |-> TRUE]
NewSynth(ratios, size, task_desc, schema) ==
    [pc |-> "start",
     train_ratio |-> ratios[1], val_ratio |-> ratios[2], test_ratio |-> ratios[3],
     size |-> size, task_desc |-> task_desc, schema |-> schema,
     bounded_size |-> 0, intents |-> <<>>, labels |-> <<>>, relations |-> <<>>,
     templates |-> <<>>, questions |-> <<>>, cases |-> <<>>,
     dataset |-> NoDataset]
SynthOff == [NewSynth(<<60, 20, 20>>, 0, "", SchemaEmpty) EXCEPT !.pc = "off"]
\* a synthesizer about to split a given list of cases
SynthAtSplit(ratios, n) ==
    [NewSynth(ratios, n, "", SchemaEmpty) EXCEPT
        !.pc = "split", !.bounded_size = n, !.intents = <<"QUERY">>,
        !.cases = [idx \in 1..n |->
                     SyntheticCase("demo", idx, Question("Find", "Node", "RELATED_TO"),
                                   <<"QUERY">>)]]

\* synthesize, lines 44-50
synthesize_begin ==
    /\ synth.pc = "start"
    /\ LET intents == _infer_intents(synth.task_desc)
       IN  synth' = [synth EXCEPT
                !.pc = "render",
                !.bounded_size = Max2(6, Min2(synth.size, 30)),
                !.intents = intents,
                !.labels = _get_list(synth.schema, "labels", <<"Node">>),
                !.relations = _get_list(synth.schema, "relations", <<"RELATED_TO">>),
                !.templates = _build_templates(intents)]
    /\ UNCHANGED <<apiVars, adapter, search, store>>

\* _render_questions: one turn of its loop, and its return when the target
\* is reached
_render_questions ==
    /\ synth.pc = "render"
    /\ LET target == synth.bounded_size * 2
       IN  \E seed \in Range(synth.templates), label \in Range(synth.labels),
              relation \in Range(synth.relations) :
              LET question == Question(seed, label, relation)
                  results == Append(synth.questions, question)
                             \o _paraphrase(question)
              IN  synth' = [synth EXCEPT
                      !.questions = Head2(results, target),
                      !.pc = IF Len(results) < target THEN "render" ELSE "rendered"]
    /\ UNCHANGED <<apiVars, adapter, search, store>>

\* synthesize, lines 52-77: hard negatives, deduplication, the cases
synthesize_cases ==
    /\ synth.pc = "rendered"
    /\ \E sampled \in SampleOutcomes(synth.questions, sample_size(synth.questions)) :
          LET extended == synth.questions
                          \o _hard_negative_questions(sampled, synth.labels,
                                                      synth.relations)
              questions == _deduplicate(extended)
              kept == Head2(questions, synth.bounded_size)
          IN  synth' = [synth EXCEPT
                  !.pc = "split",
                  !.questions = questions,
                  !.cases = [idx \in DOMAIN kept |->
                               SyntheticCase("demo", idx, kept[idx], synth.intents)]]
    /\ UNCHANGED <<apiVars, adapter, search, store>>

\* _split_cases with each outcome of random.shuffle, and synthesize's return
_split_cases ==
    /\ synth.pc = "split"
    /\ \E perm \in Permutations(DOMAIN synth.cases) :
          LET shuffled == [i \in DOMAIN synth.cases |-> synth.cases[perm[i]]]
              split == split_shuffled(shuffled, synth.train_ratio, synth.val_ratio)
          IN  synth' = [synth EXCEPT
                  !.pc = "done",
                  !.dataset = [cases |-> synth.cases,
                               train_cases |-> split.train_cases,
                               val_cases |-> split.val_cases,
                               test_cases |-> split.test_cases,
                               final_size |-> Len(synth.cases)]]
    /\ UNCHANGED <<apiVars, adapter, search, store>>

\* ------------------------------------------------------------------ artifact stores
\* Paths are sequences of characters over PathChars, up to MaxPathLen long.
PathChars == {"a", ".", "/", "\\", " "}
PathStrings == UNION {[1..n -> PathChars] : n \in 0..MaxPathLen}
Payloads == {"x", "y"}

\* str.replace("\\", "/")
replace_backslash(s) == [i \in DOMAIN s |-> IF s[i] = "\\" THEN "/" ELSE s[i]]
\* str.split(sep)
RECURSIVE split(_, _)
split(s, sep) ==
    IF \A i \in DOMAIN s : s[i] # sep THEN <<s>>
    ELSE LET at == CHOOSE i \in DOMAIN s :
                       s[i] = sep /\ \A j \in 1..(i - 1) : s[j] # sep
         IN  <<SubSeq(s, 1, at - 1)>> \o split(SubSeq(s, at + 1, Len(s)), sep)
\* sep.join(parts)
RECURSIVE join(_, _)
join(parts, sep) ==
    IF parts = <<>> THEN <<>>
    ELSE IF Len(parts) = 1 THEN parts[1]
    ELSE parts[1] \o <<sep>> \o join(Tail(parts), sep)

\* pathlib.PurePosixPath(raw): the root and the parts; empty and "."
\* segments are dropped when the path is parsed, ".." segments are kept
PurePosixPath(raw) ==
    [root |-> IF raw # <<>> /\ raw[1] = "/" THEN "/" ELSE "",
     parts |-> SelectSeq(split(raw, "/"), LAMBDA part : part \notin {<<>>, <<".">>})]
is_absolute(candidate) == candidate.root # ""
as_posix(candidate) ==
    IF candidate.root # "" THEN <<"/">> \o join(candidate.parts, "/")
    ELSE IF candidate.parts = <<>> THEN <<".">>
    ELSE join(candidate.parts, "/")

Accepted(normalized) == [error |-> "", normalized |-> normalized]
Rejected(message) == [error |-> message, normalized |-> <<>>]
normalize_artifact_path(path) ==
    LET raw == replace_backslash(strip(path))
        candidate == PurePosixPath(raw)
        normalized == as_posix(candidate)
        parts == split(normalized, "/")
    IN  IF raw = <<>> THEN Rejected("artifact path must not be empty")
        ELSE IF is_absolute(candidate) THEN Rejected("artifact path must be relative")
        ELSE IF normalized \in {<<".">>, <<>>}
             THEN Rejected("artifact path must not be current directory")
        ELSE IF \E i \in DOMAIN parts : parts[i] \in {<<>>, <<".">>, <<".", ".">>}
             THEN Rejected("artifact path contains illegal traversal segment")
        ELSE Accepted(normalized)

\* the directories above a relative path: "a/b/c" has "a" and "a/b"
Parents(normalized) ==
    LET parts == split(normalized, "/")
    IN  {join(SubSeq(parts, 1, n), "/") : n \in 1..(Len(parts) - 1)}

NoFiles == [path \in {} |-> ""]
\* LocalArtifactStore (scheme "local": files and directories under the root)
\* or InMemoryArtifactStore (scheme "memory": the _objects dictionary)
NewStore(scheme) ==
    [scheme |-> scheme, pc |-> "idle", objects |-> NoFiles, dirs |-> {},
     path |-> <<>>, payload |-> "", normalized_path |-> <<>>, error |-> "",
     \* History, not program state: the put calls made
     puts |-> 0]
StoreOff == [NewStore("memory") EXCEPT !.pc = "off"]

\* put, first line: normalize_artifact_path raises ValueError or returns
put(paths, payloads) ==
    /\ store.pc = "idle"
    /\ store.puts < MaxPuts
    /\ \E path \in paths, payload \in payloads :
          LET n == normalize_artifact_path(path)
          IN  store' = [store EXCEPT
                  !.puts = @ + 1, !.path = path, !.payload = payload,
                  !.normalized_path = n.normalized,
                  !.error = IF n.error = "" THEN "" ELSE "ValueError",
                  !.pc = IF n.error = "" THEN "write" ELSE "idle"]
    /\ UNCHANGED <<apiVars, adapter, search, synth>>

\* put, the rest: the memory store assigns _objects[normalized_path]; the
\* local store makes the parent directories (which fails when one of them
\* is a file) and writes the file (which fails when it is a directory)
put_write ==
    /\ store.pc = "write"
    /\ LET dest == store.normalized_path
           stored == (dest :> store.payload) @@ store.objects
       IN  IF store.scheme = "memory"
           THEN store' = [store EXCEPT !.pc = "idle", !.objects = stored]
           ELSE IF Parents(dest) \cap DOMAIN store.objects # {}
           THEN store' = [store EXCEPT !.pc = "idle", !.error = "OSError"]
           ELSE IF dest \in store.dirs
           THEN store' = [store EXCEPT !.pc = "idle", !.error = "OSError",
                                       !.dirs = @ \cup Parents(dest)]
           ELSE store' = [store EXCEPT !.pc = "idle", !.objects = stored,
                                       !.dirs = @ \cup Parents(dest)]
    /\ UNCHANGED <<apiVars, adapter, search, synth>>


\* the components outside the request handlers, not in use
InitLib ==
    /\ adapter = AdapterOff
    /\ search = SearchOff
    /\ synth = SynthOff
    /\ store = StoreOff

InitWith(n, modes, pools) == InitApi(n, modes, pools) /\ InitLib

\* Version lifecycle of one agent: optimize, list, deploy and rollback
\* requests of one tenant, each in its own session.
DbVersions == {1, 2}
Init == InitWith(MaxDbRequests, BOOLEAN, DefaultPool)
Next ==
    \/ \E r \in Req : optimize_agent(r, {TenantA}, {None})
    \/ \E r \in Req : optimize_search(r)
    \/ \E r \in Req : create_optimization_run(r)
    \/ \E r \in Req : create_version(r)
    \/ \E r \in Req : commit_optimize(r)
    \/ \E r \in Req : sync_finish(r)
    \/ \E r \in Req : list_versions_endpoint(r, {TenantA}, {AgentX})
    \/ \E r \in Req : deploy_version(r, {TenantA}, DbVersions)
    \/ \E r \in Req : rollback_version(r, {TenantA}, DbVersions)
    \/ \E r \in Req : update_lifecycle_list(r)
    \/ \E r \in Req : update_lifecycle_commit(r)
Spec == Init /\ [][Next]_vars

\* Two tenants using the same external agent_name.
TwoTenants == {TenantA, TenantB}
TenantVersions == {1}
InitTenants == InitWith(MaxTenantRequests, BOOLEAN, DefaultPool)
NextTenants ==
    \/ \E r \in Req : optimize_agent(r, TwoTenants, {None})
    \/ \E r \in Req : optimize_search(r)
    \/ \E r \in Req : create_optimization_run(r)
    \/ \E r \in Req : create_version(r)
    \/ \E r \in Req : commit_optimize(r)
    \/ \E r \in Req : sync_finish(r)
    \/ \E r \in Req : list_versions_endpoint(r, TwoTenants, {AgentX})
    \/ \E r \in Req : deploy_version(r, TwoTenants, TenantVersions)
    \/ \E r \in Req : rollback_version(r, TwoTenants, TenantVersions)
    \/ \E r \in Req : update_lifecycle_list(r)
    \/ \E r \in Req : update_lifecycle_commit(r)
SpecTenants == InitTenants /\ [][NextTenants]_vars

\* The four write endpoints with an Idempotency-Key, for a regular tenant
\* and for a tenant id that is blank.
IdemTenants == {TenantA, TenantBlank}
IdemKeys == {KeyK, KeyBlank}
InitIdem == InitWith(MaxIdemRequests, SqliteOnly, DefaultPool)
NextIdem ==
    \/ \E r \in Req : optimize_agent(r, IdemTenants, IdemKeys)
    \/ \E r \in Req : benchmark_manual_parity(r, IdemTenants, IdemKeys, {PathGood, PathOutside})
    \/ \E r \in Req : optimize_agent_async(r, IdemTenants, IdemKeys)
    \/ \E r \in Req : benchmark_manual_parity_async(r, IdemTenants, IdemKeys, {PathGood})
    \/ \E r \in Req : optimize_search(r)
    \/ \E r \in Req : create_optimization_run(r)
    \/ \E r \in Req : create_version(r)
    \/ \E r \in Req : commit_optimize(r)
    \/ \E r \in Req : sync_finish(r)
    \/ \E r \in Req : submit_record(r)
    \/ \E r \in Req : submit_enqueue(r)
    \/ \E r \in Req : async_respond(r)
    \/ \E w \in Workers : worker_take(w)
    \/ \E w \in Workers : _execute_job_start(w)
    \/ \E w \in Workers : _execute_job_end(w)
SpecIdem == InitIdem /\ [][NextIdem]_vars

\* The async endpoints, the worker pool and the job status endpoint, for
\* two tenants.
InitJobs == InitWith(MaxJobRequests, BOOLEAN, DefaultPool)
NextJobs ==
    \/ \E r \in Req : optimize_agent_async(r, {TenantA}, {None})
    \/ \E r \in Req : benchmark_manual_parity_async(r, {TenantA}, {None}, {PathOutside})
    \/ \E r \in Req : get_async_job_status(r, TwoTenants, Req)
    \/ \E r \in Req : submit_record(r)
    \/ \E r \in Req : submit_enqueue(r)
    \/ \E r \in Req : async_respond(r)
    \/ \E w \in Workers : worker_take(w)
    \/ \E w \in Workers : _execute_job_start(w)
    \/ \E w \in Workers : _execute_job_end(w)
    \/ \E r \in Req : optimize_search(r)
    \/ \E r \in Req : create_optimization_run(r)
    \/ \E r \in Req : create_version(r)
    \/ \E r \in Req : commit_optimize(r)
SpecJobs == InitJobs /\ [][NextJobs]_vars

\* The job queue under fair scheduling: the handler thread goes on to
\* executor.submit, pool threads run, and the steps of a runner (the
\* service call of its job) are taken: the runner terminates.
InitFair == InitWith(MaxFairRequests, SqliteOnly, 1..max_workers)
NextFair ==
    \/ \E r \in Req : optimize_agent_async(r, {TenantA}, {None})
    \/ \E r \in Req : submit_record(r)
    \/ \E r \in Req : submit_enqueue(r)
    \/ \E r \in Req : async_respond(r)
    \/ \E w \in Workers : worker_take(w)
    \/ \E w \in Workers : _execute_job_start(w)
    \/ \E w \in Workers : _execute_job_end(w)
    \/ \E r \in Req : optimize_search(r)
    \/ \E r \in Req : create_optimization_run(r)
    \/ \E r \in Req : create_version(r)
    \/ \E r \in Req : commit_optimize(r)
Fairness ==
    /\ \A r \in 1..MaxFairRequests :
          /\ WF_vars(submit_enqueue(r))
          /\ WF_vars(optimize_search(r))
          /\ WF_vars(create_optimization_run(r))
          /\ WF_vars(create_version(r))
          /\ WF_vars(commit_optimize(r))
    /\ \A w \in Workers :
          /\ WF_vars(worker_take(w))
          /\ WF_vars(_execute_job_start(w))
          /\ WF_vars(_execute_job_end(w))
SpecJobsFair == InitFair /\ [][NextFair]_vars /\ Fairness

\* One adapter with each admitted combination of small settings, a clock,
\* and execute_case calls whose attempts succeed, time out or raise.
Outcomes == {"ok", "TIMEOUT", "EXECUTION_ERROR"}
InitRuntime ==
    /\ InitApi(0, SqliteOnly, DefaultPool)
    /\ \E m \in RetryChoices, th \in ThresholdChoices, rs \in ResetChoices :
          adapter = NewAdapter(m, th, rs)
    /\ search = SearchOff
    /\ synth = SynthOff
    /\ store = StoreOff
NextRuntime ==
    \/ clock_tick
    \/ execute_case
    \/ execute_attempt(Outcomes)
SpecRuntime == InitRuntime /\ [][NextRuntime]_vars

\* One optimize call for each small config and both datasets; every
\* evaluation returns mean score 0 or 1.
Scores == {0, 1}
ExpansionChoices == {1, 2}
PatienceChoices == {1, 2}
MinImprovementChoices == {1, 2}
InitSearch ==
    /\ InitApi(0, SqliteOnly, DefaultPool)
    /\ adapter = AdapterOff
    /\ synth = SynthOff
    /\ store = StoreOff
    /\ \E rounds \in 1..MaxRounds, e \in ExpansionChoices, p \in PatienceChoices,
          mi \in MinImprovementChoices, h \in BOOLEAN,
          d \in {DatasetSplit, DatasetNoTest} :
          search = NewSearch(SearchConfig(rounds, e, p, mi, h), d)
NextSearch ==
    \/ optimize_root(Scores)
    \/ optimize_round
    \/ optimize_expand(Scores)
    \/ optimize_round_end
    \/ optimize_finalize(Scores)
SpecSearch == InitSearch /\ [][NextSearch]_vars
SpecSearchFair == SpecSearch /\ WF_vars(NextSearch)

\* _split_cases on each list of 3..MaxCases cases with each ratio triple
InitSplit ==
    /\ InitApi(0, SqliteOnly, DefaultPool)
    /\ adapter = AdapterOff
    /\ search = SearchOff
    /\ store = StoreOff
    /\ \E ratios \in RatioChoices, n \in 3..MaxCases :
          /\ ratios_accepted(ratios[1], ratios[2], ratios[3])
          /\ synth = SynthAtSplit(ratios, n)
NextSplit ==
    \/ _split_cases
SpecSplit == InitSplit /\ [][NextSplit]_vars

\* One synthesize call for each requested size, task description and
\* schema snapshot of the model, with the default ratios.
SizeChoices == {1, 6}
TaskChoices == {"query", "import"}
SchemaChoices == {SchemaEmpty, SchemaOneLabel}
InitSynth ==
    /\ InitApi(0, SqliteOnly, DefaultPool)
    /\ adapter = AdapterOff
    /\ search = SearchOff
    /\ store = StoreOff
    /\ \E size \in SizeChoices, task_desc \in TaskChoices, schema \in SchemaChoices :
          synth = NewSynth(<<60, 20, 20>>, size, task_desc, schema)
NextSynth ==
    \/ synthesize_begin
    \/ _render_questions
    \/ synthesize_cases
    \/ _split_cases
SpecSynth == InitSynth /\ [][NextSynth]_vars

\* One store of each backend and put calls with every path over PathChars.
InitStore ==
    /\ InitApi(0, SqliteOnly, DefaultPool)
    /\ adapter = AdapterOff
    /\ search = SearchOff
    /\ synth = SynthOff
    /\ \E scheme \in {"local", "memory"} : store = NewStore(scheme)
NextStore ==
    \/ put(PathStrings, Payloads)
    \/ put_write
SpecStore == InitStore /\ [][NextStore]_vars

\* Manual-parity requests of one tenant with each kind of manual blueprint
\* path, with and without an idempotency key.
ManualPaths == {PathGood, PathOutside, PathMissing, PathDirectory,
                PathBadSuffix, PathNotObject, PathBadYaml, PathBadJson}
InitParity == InitWith(MaxParityRequests, SqliteOnly, DefaultPool)
NextParity ==
    \/ \E r \in Req : benchmark_manual_parity(r, {TenantA}, {None, KeyK}, ManualPaths)
    \/ \E r \in Req : optimize_search(r)
    \/ \E r \in Req : create_optimization_run(r)
    \/ \E r \in Req : create_version(r)
    \/ \E r \in Req : commit_optimize(r)
    \/ \E r \in Req : sync_finish(r)
SpecParity == InitParity /\ [][NextParity]_vars

\* Every endpoint behind its auth dependency: requests of one deployment,
\* with auth enabled or not, each carrying an X-API-Key header, an
\* Authorization header, both or none.
MaxAuthRequests == 1
TokenOperatorB == Jwt(3, "HS256", "secret", 200, TenantB, "operator")
Credentials ==
    {<<None, NoHeader>>, <<KeyUnknown, NoHeader>>, <<KeyViewer, NoHeader>>,
     <<KeyOperator, NoHeader>>, <<KeyAdmin, NoHeader>>,
     <<KeyViewer, BlankHeader>>, <<KeyAdmin, BasicHeader>>,
     <<None, Bearer(TokenOperatorB)>>,
     <<None, Bearer([TokenOperatorB EXCEPT !.exp = 80])>>,
     <<None, Bearer([TokenOperatorB EXCEPT !.exp = 60])>>,
     <<None, Bearer([TokenOperatorB EXCEPT !.exp = 0])>>,
     <<KeyAdmin, Bearer([TokenOperatorB EXCEPT !.signed_with = "other"])>>,
     <<None, Bearer([TokenOperatorB EXCEPT !.alg = "none"])>>,
     <<None, Bearer([TokenOperatorB EXCEPT !.segments = 2])>>,
     <<None, Bearer([TokenOperatorB EXCEPT !.tenant_id = TenantBlank])>>,
     <<None, Bearer([TokenOperatorB EXCEPT !.role = "root"])>>}
AuthVersions == {1}
\* The database is empty, or holds what an earlier optimize request of
\* tenant a left: the agent, its run and its version 1.
SeededAgent == to_tenant_scoped_agent_name(AgentX, TenantA)
InitAuth ==
    /\ InitLib
    /\ singleWriter = TRUE
    /\ dbLock = 0
    /\ \E seeded \in BOOLEAN :
          /\ agents = IF seeded THEN {SeededAgent} ELSE {}
          /\ versions = IF seeded THEN {VersionRow(0, SeededAgent, 1, "validated", 1)}
                        ELSE {}
          /\ runs = IF seeded THEN {RunRow(0, SeededAgent)} ELSE {}
    /\ records = <<>>
    /\ jobs = <<>>
    /\ workQueue = <<>>
    /\ workers = [w \in Workers |-> [job |-> 0, pc |-> "idle"]]
    /\ \E enabled \in BOOLEAN :
          req \in [1..MaxAuthRequests ->
                    {[IdleReq EXCEPT !.auth_enabled = enabled, !.x_api_key = c[1],
                                     !.authorization = c[2]] : c \in Credentials}]
    /\ tx = [r \in 1..MaxAuthRequests |-> IdleTx]
NextAuth ==
    \/ \E r \in Req : dependency_raises(r, EndpointKinds)
    \/ \E r \in Req : optimize_agent(r, auth_tenants(r, "optimize"), {None})
    \/ \E r \in Req : benchmark_manual_parity(r, auth_tenants(r, "manual_parity"), {None}, {PathGood})
    \/ \E r \in Req : optimize_agent_async(r, auth_tenants(r, "optimize_async"), {None})
    \/ \E r \in Req : benchmark_manual_parity_async(r, auth_tenants(r, "manual_parity_async"), {None}, {PathGood})
    \/ \E r \in Req : get_async_job_status(r, auth_tenants(r, "job_status"), Req)
    \/ \E r \in Req : list_versions_endpoint(r, auth_tenants(r, "list"), {AgentX})
    \/ \E r \in Req : deploy_version(r, auth_tenants(r, "deploy"), AuthVersions)
    \/ \E r \in Req : rollback_version(r, auth_tenants(r, "rollback"), AuthVersions)
    \/ \E r \in Req : optimize_search(r)
    \/ \E r \in Req : create_optimization_run(r)
    \/ \E r \in Req : create_version(r)
    \/ \E r \in Req : commit_optimize(r)
    \/ \E r \in Req : sync_finish(r)
    \/ \E r \in Req : update_lifecycle_list(r)
    \/ \E r \in Req : update_lifecycle_commit(r)
    \/ \E r \in Req : submit_record(r)
    \/ \E r \in Req : submit_enqueue(r)
    \/ \E r \in Req : async_respond(r)
    \/ \E w \in Workers : worker_take(w)
    \/ \E w \in Workers : _execute_job_start(w)
    \/ \E w \in Workers : _execute_job_end(w)
SpecAuth == InitAuth /\ [][NextAuth]_vars

\* Search runs over blueprints: every combination of the three mutation
\* knobs, a tool catalog, and a root that build_initial_blueprint made of
\* the first tools of the catalog or that was loaded from a file.
MaxMutateRounds == 2
Catalogs == {<<>>, <<"A", "B">>}
Topologies == {"linear", "planner_worker_reviewer", "router_parallel"}
\* a loaded blueprint: its lists are separate, the first expert's operators
\* name an action that leader_actions does not, the second has no operators
ManualRoot ==
    Built(<< <<"A", "B">>, <<ActionSpec("use_a", <<"A">>), ActionSpec("use_b", <<"B">>)>>,
             <<"use_a">>, <<>>, <<"use_a", "use_b">>, <<"use_b">> >>,
          WorkflowBlueprint(1, "linear", 1, 2,
              << <<OperatorBlueprint("first", "initial", 5),
                   OperatorBlueprint("second", "initial", 6)>>, <<>> >>, 3, 0, 4))
\* a loaded blueprint without experts
BareRoot ==
    Built(<< <<>>, <<>>, <<>>, <<>> >>,
          WorkflowBlueprint(1, "router_parallel", 1, 2, <<>>, 3, 0, 4))
Roots(tool_catalog) ==
    {build_initial_blueprint(<<>>, 1, SubSeq(tool_catalog, 1, k), topology) :
        k \in 0..Len(tool_catalog), topology \in Topologies}
    \cup {ManualRoot, BareRoot}
InitMutate ==
    /\ InitApi(0, SqliteOnly, DefaultPool)
    /\ adapter = AdapterOff
    /\ synth = SynthOff
    /\ store = StoreOff
    /\ \E expansions \in 1..2, prompt \in BOOLEAN, tool \in BOOLEAN, topology \in BOOLEAN,
          tool_catalog \in Catalogs :
          \E root \in Roots(tool_catalog) :
              search = NewTree(TreeConfig(MaxMutateRounds, expansions, prompt, tool,
                                          topology),
                               tool_catalog, root)
NextMutate ==
    \/ tree_root({0})
    \/ tree_select
    \/ tree_expand({0}, BOOLEAN)
SpecMutate == InitMutate /\ [][NextMutate]_vars

\* Search runs seen as a tree: one root, prompt mutations only, and
\* objectives that are 1, 0 or -2. An objective is below -1 when the
\* latency penalty is high, as it is when every case ran into the
\* 30 s timeout: 0.05 * 30 = 1.5.
MaxTreeRounds == 2
Objectives == {-2, 0, 1}
InitTree ==
    /\ InitApi(0, SqliteOnly, DefaultPool)
    /\ adapter = AdapterOff
    /\ synth = SynthOff
    /\ store = StoreOff
    /\ \E expansions \in 1..2 :
          search = NewTree(TreeConfig(MaxTreeRounds, expansions, TRUE, FALSE, FALSE), <<>>,
                           build_initial_blueprint(<<>>, 1, <<>>, "linear"))
NextTree ==
    \/ tree_root(Objectives)
    \/ tree_select
    \/ tree_expand(Objectives, BOOLEAN)
SpecTree == InitTree /\ [][NextTree]_vars

\* Tenants whose ids hold blanks or "::", and agent names that hold "::":
\* optimize requests for agent x and list requests for any of the names.
MaxScopeRequests == 2
ScopeTenants == {<<"a">>, <<" ", "a">>, <<"a", ":", ":", "b">>, <<"b">>}
ScopeNames == {AgentX, <<"b", ":", ":", "x">>, <<":", ":", "x">>}
InitScope == InitWith(MaxScopeRequests, SqliteOnly, DefaultPool)
NextScope ==
    \/ \E r \in Req : optimize_agent(r, ScopeTenants, {None})
    \/ \E r \in Req : optimize_search(r)
    \/ \E r \in Req : create_optimization_run(r)
    \/ \E r \in Req : create_version(r)
    \/ \E r \in Req : commit_optimize(r)
    \/ \E r \in Req : sync_finish(r)
    \/ \E r \in Req : list_versions_endpoint(r, ScopeTenants, ScopeNames)
SpecScope == InitScope /\ [][NextScope]_vars

\* ---- the job queue with the records' timestamps ----
\* Two concurrent async optimize requests and the pool's threads.
MaxFifoRequests == 2
FifoReq == 1..MaxFifoRequests
InitFifo == InitWith(MaxFifoRequests, SqliteOnly, DefaultPool)
NextFifo ==
    \/ \E r \in FifoReq : optimize_agent_async(r, {TenantA}, {None})
    \/ \E r \in FifoReq : submit_record_timed(r)
    \/ \E r \in FifoReq : submit_enqueue(r)
    \/ \E r \in FifoReq : async_respond(r)
    \/ \E w \in Workers : worker_take(w)
    \/ \E w \in Workers : _execute_job_start(w)
    \/ \E w \in Workers : _execute_job_end(w)
    \/ \E r \in FifoReq : optimize_search(r)
    \/ \E r \in FifoReq : create_optimization_run(r)
    \/ \E r \in FifoReq : create_version(r)
    \/ \E r \in FifoReq : commit_optimize(r)
SpecFifo == InitFifo /\ [][NextFifo]_vars

\* ------------------------------------------------------------------ claims C1..C3
Deployed(rows, a) == {v \in list_versions(rows, a) : v.lifecycle = "deployed"}

\* The step in which deploy or rollback request r commits.
LifecycleCommits(r) ==
    req[r].pc = "lifecycle" /\ tx[r].pc = "flush" /\ req'[r].pc = "done"

\* C1: every agent has at most one DEPLOYED version in every reachable
\* state, and the commit of a deploy or rollback of version X leaves X
\* DEPLOYED and every version that was DEPLOYED before it VALIDATED.
C1_AtMostOneDeployed ==
    [][/\ \A a \in agents' : Cardinality(Deployed(versions', a)) <= 1
       /\ \A r \in Req : LifecycleCommits(r) =>
            /\ \A v \in get_version(versions', ScopedName(r), req[r].version) :
                  v.lifecycle = "deployed"
            /\ \A v \in Deployed(versions, ScopedName(r)) :
                  v.version # req[r].version =>
                     \E w \in versions' : w.id = v.id /\ w.lifecycle = "validated"]_vars

\* C2: the k-th committed version row of an agent carries version k.
C2_VersionIsCommitOrder == \A v \in versions : v.version = v.seq

\* C3: no two version rows of one agent carry the same version number.
C3_VersionsUniquePerAgent ==
    \A v \in versions, w \in versions :
        (v.agent = w.agent /\ v.version = w.version) => v.id = w.id

\* ------------------------------------------------------------------ claim C10
\* The tenant whose request inserted version row v.
RowTenant(v) == req[v.id].tenant

WriteKinds == SyncKinds \cup AsyncKinds

\* request r arrives in this step
Arrival(r) == req[r].pc = "idle" /\ req'[r].pc # "idle"

\* the idempotency record key a request of rq[r] works on
RecordKeyOf(rq, r) ==
    _build_record_key(_build_idempotency_scope(rq[r].tenant, rq[r].kind),
                      _normalize_idempotency_key(rq[r].key))

KeySent(rq, r) ==
    /\ rq[r].kind \in WriteKinds
    /\ _normalize_idempotency_key(rq[r].key) \notin {None, <<>>}

\* write request q carried a key and was answered successfully
Succeeded(q) ==
    /\ req[q].pc = "done"
    /\ KeySent(req, q)
    /\ req[q].resp.code \in {200, 202}

SameCall(q, r) ==
    /\ req'[r].tenant = req[q].tenant
    /\ req'[r].kind = req[q].kind
    /\ _normalize_idempotency_key(req'[r].key) = NormKey(q)

\* C4: once a write request with key k has completed successfully for a
\* tenant and operation, every later request with the same (tenant,
\* operation, key) is answered with the stored response unchanged, and its
\* step changes nothing else: no service call, no job, no database row, no
\* change of the idempotency record.
C4_ReplayReturnsStored ==
    [][\A q \in Req, r \in Req :
          (Arrival(r) /\ KeySent(req', r) /\ Succeeded(q) /\ SameCall(q, r))
            => /\ req'[r].pc = "done"
               /\ req'[r].resp = req[q].resp
               /\ UNCHANGED <<dbVars, tx, records, queueVars>>]_vars

\* a request was executed once (one version row, or one job) and a later
\* request with the same tenant, operation and key got its response
C4_Witness ==
    \E q \in Req, r \in Req :
        /\ q < r
        /\ Succeeded(q) /\ req[q].fin
        /\ req[r].pc = "done" /\ ~req[r].fin
        /\ KeySent(req, r)
        /\ RecordKeyOf(req, r) = RecordKeyOf(req, q)
        /\ req[r].resp = req[q].resp
        /\ req[q].kind \in SyncKinds => Cardinality(versions) = 1
        /\ req[q].kind \in AsyncKinds => DOMAIN jobs = {q}

\* the requests that got "started" for record key rk and have not answered
ActiveOn(rq, rk) ==
    {r \in DOMAIN rq : /\ rq[r].fin
                       /\ rq[r].pc \notin {"idle", "done"}
                       /\ RecordKeyOf(rq, r) = rk}

\* C5: per record key at most one request at a time is between a "started"
\* begin and its complete/discard, and a request that calls begin while the
\* record is in_progress is answered 409 without running the operation.
C5_OneStartedPerKey ==
    [][/\ \A rk \in DOMAIN records' : Cardinality(ActiveOn(req', rk)) <= 1
       /\ \A r \in Req :
            (/\ Arrival(r)
             /\ KeySent(req', r)
             /\ RecordKeyOf(req', r) \in DOMAIN records
             /\ records[RecordKeyOf(req', r)].status = "in_progress")
              => /\ req'[r].pc = "done"
                 /\ req'[r].resp.code = 409
                 /\ UNCHANGED <<dbVars, tx, records, queueVars>>]_vars

\* one request is executing the operation and a second one with the same
\* key has been answered 409
C5_Witness ==
    \E q \in Req, r \in Req :
        /\ q # r
        /\ q \in ActiveOn(req, RecordKeyOf(req, q))
        /\ KeySent(req, r)
        /\ RecordKeyOf(req, r) = RecordKeyOf(req, q)
        /\ req[r].pc = "done"
        /\ req[r].resp.code = 409

\* C6: on every path after begin returned "started" the handler calls
\* complete or discard, so no record stays in_progress once the request
\* that started it has been answered.
C6_StartedIsFinalized ==
    \A rk \in DOMAIN records :
        records[rk].status = "in_progress" => ActiveOn(req, rk) # {}

\* ------------------------------------------------------------------ claims C7, C9
Terminal == {"succeeded", "failed"}

StatusStep == {<<"queued", "running">>, <<"running", "succeeded">>,
               <<"running", "failed">>}

\* What a step may do to the job records: a new record is stored as queued;
\* a record changes only along queued -> running -> succeeded | failed (so
\* never after a terminal status); the runner has been invoked once as soon
\* as the job is running and never before or again; a result is stored
\* exactly with status succeeded and is what the runner returned, an error
\* message exactly with status failed and is what the runner raised.
JobLifecycleStep ==
    \A j \in DOMAIN jobs' :
        /\ j \notin DOMAIN jobs =>
              jobs'[j] = AsyncJobRecord(j, JobType(req[j].kind),
                                        req[j].tenant, req[j].name)
        /\ (j \in DOMAIN jobs /\ jobs'[j] # jobs[j]) =>
              <<jobs[j].status, jobs'[j].status>> \in StatusStep
        /\ tx'[j].calls = IF jobs'[j].status = "queued" THEN 0 ELSE 1
        /\ jobs'[j].result # NoneResponse <=> jobs'[j].status = "succeeded"
        /\ jobs'[j].status = "succeeded" =>
              tx'[j].pc = "ok" /\ jobs'[j].result = service_payload(j)'
        /\ jobs'[j].error # "None" <=> jobs'[j].status = "failed"
        /\ jobs'[j].status = "failed" =>
              tx'[j].pc = "err" /\ jobs'[j].error = tx'[j].error

\* the 202 answers of the async endpoints
Submitted == {r \in Req : /\ req[r].kind \in AsyncKinds
                          /\ req[r].pc = "done"
                          /\ req[r].resp.code = 202}

C9_TenantScopedLookup ==
    [][\A r \in Req :
          (Arrival(r) /\ req'[r].kind = "job_status") =>
              LET j == req'[r].job_id
                  t == req'[r].tenant
                  answer == req'[r].resp
              IN  /\ (j \in DOMAIN jobs /\ jobs[j].tenant_id = t) =>
                        /\ answer.code = 200
                        /\ answer.body.job_id = j
                        /\ answer.body.tenant_id = t
                        /\ answer.body.status = jobs[j].status
                  /\ (j \in DOMAIN jobs /\ jobs[j].tenant_id # t) =>
                        answer = JobNotFound
                  /\ j \notin DOMAIN jobs => answer = JobNotFound
                  /\ UNCHANGED <<jobs, workQueue>>]_vars

\* a caller of tenant b asked for an existing job of tenant a and got 404
C9_Witness ==
    \E r \in Req :
        /\ req[r].kind = "job_status" /\ req[r].pc = "done"
        /\ req[r].job_id \in DOMAIN jobs
        /\ jobs[req[r].job_id].tenant_id # req[r].tenant
        /\ req[r].resp = JobNotFound

\* ------------------------------------------------------------------ claim C8
\* C8: under fair scheduling every job whose record submit has stored
\* reaches a terminal status, however many jobs are queued before it.
C8_JobsTerminate ==
    \A j \in 1..MaxFairRequests :
        (j \in DOMAIN jobs) ~> (j \in DOMAIN jobs /\ jobs[j].status \in Terminal)

\* a job was queued while no pool thread was free, and all jobs are
\* terminal
C8_Witness ==
    /\ \E j \in DOMAIN jobs : tx[j].waited
    /\ \A j \in DOMAIN jobs : jobs[j].status \in Terminal

\* ------------------------------------------------------------------ claims C11..C13
CircuitOpenError == _build_runtime_error("CIRCUIT_OPEN")

\* what the latest finished call returned
LastOutput(a) == a.log[Len(a.log)]

\* an execute_case call starts / returns in this step
CallStarts == adapter.pc = "idle" /\ adapter'.calls = adapter.calls + 1
CallReturns == Len(adapter'.log) = Len(adapter.log) + 1

\* C11: once the calls that failed in a row have reached the threshold, a
\* call made before reset_seconds have passed since the latest such failure
\* returns RUNTIME_ERROR[CIRCUIT_OPEN] at once, with no executor invocation
\* and no retry, and leaves the failure counter and the re-close time as
\* they were.
C11_OpenCircuitShortCircuits ==
    [][(/\ CallStarts
        /\ adapter.streak >= adapter.sdk_runtime_circuit_failure_threshold
        /\ adapter.now < adapter.tripped_at + adapter.sdk_runtime_circuit_reset_seconds)
          => /\ CallReturns
             /\ LastOutput(adapter') = CircuitOpenError
             /\ adapter'.attempts = <<>>
             /\ adapter'.pc = "idle"
             /\ adapter'.consecutive_failures = adapter.consecutive_failures
             /\ adapter'.circuit_open_until = adapter.circuit_open_until]_vars

\* two failed calls reached the threshold 2 and the third call, made before
\* the reset time, was short-circuited
C11_Witness ==
    /\ adapter.sdk_runtime_circuit_failure_threshold = 2
    /\ Len(adapter.log) = 3
    /\ adapter.log[1] = _build_runtime_error("EXECUTION_ERROR")
    /\ adapter.log[2] = _build_runtime_error("TIMEOUT")
    /\ adapter.log[3] = CircuitOpenError
    /\ adapter.attempts = <<>>
    /\ adapter.consecutive_failures = 2

\* C12: a successful call sets the failure counter to 0 and closes the
\* circuit, and the circuit is open only when at least threshold calls have
\* failed in a row since the last success.
C12_SuccessResets ==
    [][/\ (CallReturns /\ LastOutput(adapter') = _build_runtime_result)
            => /\ adapter'.consecutive_failures = 0
               /\ adapter'.circuit_open_until <= adapter'.now
       /\ adapter'.now < adapter'.circuit_open_until
            => adapter'.streak >= adapter'.sdk_runtime_circuit_failure_threshold]_vars

\* with threshold 2: a failed call, a success, and one more failed call,
\* after which the circuit is still closed
C12_Witness ==
    /\ adapter.sdk_runtime_circuit_failure_threshold = 2
    /\ Len(adapter.log) = 3
    /\ adapter.log[1] = _build_runtime_error("EXECUTION_ERROR")
    /\ adapter.log[2] = _build_runtime_result
    /\ adapter.log[3] = _build_runtime_error("EXECUTION_ERROR")
    /\ adapter.consecutive_failures = 1
    /\ adapter.circuit_open_until <= adapter.now

\* C13: a call made while the circuit is closed invokes the executor at
\* least once and at most max_retries + 1 times and stops at the first
\* success; when every attempt failed the counter grows by exactly one, at
\* the end and not per attempt, and the call returns RUNTIME_ERROR with the
\* category of the last failed attempt.
C13_RetryPolicy ==
    [][LET n == Len(adapter'.attempts)
           most == adapter.sdk_runtime_max_retries + 1
       IN  /\ (CallStarts /\ adapter.circuit_open_until <= adapter.now)
                => adapter'.pc = "attempt" /\ n = 0
           /\ adapter'.pc = "attempt"
                => /\ n < most
                   /\ \A i \in 1..n : adapter'.attempts[i] # "ok"
                   /\ adapter'.consecutive_failures = adapter.consecutive_failures
           /\ (adapter.pc = "attempt" /\ CallReturns)
                => /\ n >= 1 /\ n <= most
                   /\ \A i \in 1..(n - 1) : adapter'.attempts[i] # "ok"
                   /\ IF adapter'.attempts[n] = "ok"
                      THEN LastOutput(adapter') = _build_runtime_result
                      ELSE /\ n = most
                           /\ adapter'.consecutive_failures =
                                 adapter.consecutive_failures + 1
                           /\ LastOutput(adapter') =
                                 _build_runtime_error(adapter'.attempts[n])]_vars

\* with one retry: the first attempt raised, the second timed out, and the
\* call returned RUNTIME_ERROR[TIMEOUT] with the counter at 1
C13_Witness ==
    /\ adapter.sdk_runtime_max_retries = 1
    /\ adapter.pc = "idle"
    /\ adapter.attempts = <<"EXECUTION_ERROR", "TIMEOUT">>
    /\ LastOutput(adapter) = _build_runtime_error("TIMEOUT")
    /\ adapter.consecutive_failures = 1

\* ------------------------------------------------------------------ claims C14..C16
\* C14: in the round_traces of a search run best_train_objective and
\* best_val_objective never decrease in trace order; every trace has
\* best_train_objective >= train_objective and best_val_objective >=
\* val_objective, and its regret is best_val_objective - val_objective and
\* not negative.
C14_BestIsMonotone ==
    \A i \in 1..Len(search.round_traces) :
        LET t == search.round_traces[i]
        IN  /\ t.best_train_objective >= t.train_objective
            /\ t.best_val_objective >= t.val_objective
            /\ t.regret = t.best_val_objective - t.val_objective
            /\ t.regret >= 0
            /\ i > 1 =>
                 /\ t.best_train_objective >=
                       search.round_traces[i - 1].best_train_objective
                 /\ t.best_val_objective >=
                       search.round_traces[i - 1].best_val_objective

\* a finished run in which one candidate raised the best validation
\* objective and a later one stayed below it
C14_Witness ==
    /\ search.pc = "done"
    /\ \E i \in 1..Len(search.round_traces), j \in 1..Len(search.round_traces) :
          /\ i < j
          /\ search.round_traces[i].val_objective > search.history[1].mean_score
          /\ search.round_traces[i].regret = 0
          /\ search.round_traces[j].regret > 0
          /\ search.round_traces[j].train_objective <
                search.round_traces[j].best_train_objective

\* the number of rounds at the end of the log whose improvement is below
\* min_improvement
RECURSIVE LowRun(_, _)
LowRun(log, min_improvement) ==
    IF log = <<>> \/ log[Len(log)] >= min_improvement THEN 0
    ELSE 1 + LowRun(SubSeq(log, 1, Len(log) - 1), min_improvement)

RoundBounds ==
    LET c == search.config
        low == LowRun(search.round_log, c.min_improvement)
    IN  /\ search.round_idx <= c.rounds
        /\ Len(search.round_log) <= c.rounds
        /\ Len(search.round_traces) <= c.rounds * c.expansions_per_round
        /\ search.no_improve_rounds = low
        /\ low <= c.patience
        /\ low = c.patience => search.pc \in {"finalize", "done"}

\* C15: the search ends, after at most `rounds` rounds and rounds x
\* expansions_per_round candidates, and no later than at the end of the
\* patience-th round in a row that improved best_val_objective by less than
\* min_improvement; a round that improves by at least min_improvement
\* starts that count again at 0.
C15_SearchTerminates ==
    /\ <>(search.pc = "done")
    /\ [](search.pc # "off" => RoundBounds)

\* a run that ended before its last round: an improving round reset the
\* count, then `patience` rounds in a row did not improve
C15_Witness ==
    /\ search.pc = "done"
    /\ Len(search.round_log) < search.config.rounds
    /\ LowRun(search.round_log, search.config.min_improvement) = search.config.patience
    /\ \E i \in 1..Len(search.round_log) :
          search.round_log[i] >= search.config.min_improvement

\* C16: the test split is evaluated at most once, after the last round and
\* on the blueprint returned as best_blueprint; without holdout, or when
\* the dataset's test_cases list is empty, there is no test evaluation and
\* test_evaluation is none; without holdout validation_evaluation is none
\* and every trace has generalization_gap 0.
C16_TestOnlyOnHoldout ==
    LET c == search.config
    IN  /\ Len(search.test_runs) <= 1
        /\ search.pc # "done" => search.test_runs = <<>>
        /\ search.pc = "done" =>
             /\ \A i \in 1..Len(search.test_runs) :
                   /\ search.test_runs[i].at = "finalize"
                   /\ search.test_runs[i].eval.blueprint = search.result.best_blueprint
                   /\ search.test_runs[i].eval = search.result.test_evaluation
             /\ (~c.use_holdout \/ search.dataset.test_cases = <<>>) =>
                   /\ search.test_runs = <<>>
                   /\ search.result.test_evaluation = NoEval
             /\ ~c.use_holdout =>
                   /\ search.result.validation_evaluation = NoEval
                   /\ \A i \in 1..Len(search.round_traces) :
                         search.round_traces[i].generalization_gap = 0

\* ------------------------------------------------------------------ claims C17..C18
AsSet(list) == {list[i] : i \in DOMAIN list}
\* C17: for a list of at least 3 cases, the train, val and test lists that
\* _split_cases returns are each non-empty, pairwise disjoint and together
\* hold exactly the input cases, so their lengths sum to the number of cases.
C17_SplitIsPartition ==
    (synth.pc = "done" /\ Len(synth.dataset.cases) >= 3) =>
        LET d == synth.dataset
        IN  /\ d.train_cases # <<>> /\ d.val_cases # <<>> /\ d.test_cases # <<>>
            /\ AsSet(d.train_cases) \cap AsSet(d.val_cases) = {}
            /\ AsSet(d.train_cases) \cap AsSet(d.test_cases) = {}
            /\ AsSet(d.val_cases) \cap AsSet(d.test_cases) = {}
            /\ AsSet(d.train_cases) \cup AsSet(d.val_cases) \cup AsSet(d.test_cases)
                 = AsSet(d.cases)
            /\ Len(d.train_cases) + Len(d.val_cases) + Len(d.test_cases)
                 = Len(d.cases)

\* C18: every dataset that synthesize returns has at least 6 and at most 30
\* cases, and _deduplicate leaves at least 6 questions.
C18_SizeIsBounded ==
    /\ synth.pc = "done" =>
          (Len(synth.dataset.cases) >= 6 /\ Len(synth.dataset.cases) <= 30)
    /\ synth.pc \in {"split", "done"} => Len(synth.questions) >= 6

\* ------------------------------------------------------------------ claim C19
\* the segments of a path as it is given (stripped, "\" read as "/")
Segments(path) == split(replace_backslash(strip(path)), "/")
CleanRelative(stored) ==
    /\ stored # <<>>
    /\ stored[1] # "/"
    /\ \A i \in DOMAIN split(stored, "/") :
          split(stored, "/")[i] \notin {<<>>, <<".">>, <<".", ".">>}
PutCalled == store.pc = "idle" /\ store'.puts = store.puts + 1
PutRaisedBeforeWriting ==
    /\ store'.pc = "idle"
    /\ store'.error = "ValueError"
    /\ store'.objects = store.objects
    /\ store'.dirs = store.dirs
StoredPathsClean == \A stored \in DOMAIN store.objects \cup store.dirs : CleanRelative(stored)

\* C19: in both stores a put whose path is empty, ".", absolute or has a
\* segment "", "." or ".." raises a validation error before anything is
\* written and leaves the contents as they were; every path under which an
\* object is stored is relative and has no "", "." or ".." segment.
C19_IllegalPathRejected ==
    /\ [][(PutCalled /\ LET raw == replace_backslash(strip(store'.path))
                        IN  \/ raw \in {<<>>, <<".">>}
                            \/ raw[1] = "/"
                            \/ \E i \in DOMAIN Segments(store'.path) :
                                  Segments(store'.path)[i] \in {<<>>, <<".">>, <<".", ".">>})
            => PutRaisedBeforeWriting]_vars
    /\ []StoredPathsClean

\* ------------------------------------------------------------------ claim C20
\* a path outside the allow-list root, or one that does not exist, is not a
\* file, or holds no parsable blueprint
BadManualPath(path) ==
    \/ path.location # "inside"
    \/ path.kind # "file"
    \/ path.suffix \notin {".yml", ".yaml", ".json"}
    \/ path.content # "object"
NothingCreatedFor(r) ==
    /\ tx[r].pc \in {"none", "start", "err"}
    /\ ~tx[r].newAgent
    /\ \A run \in runs : run.id # r
    /\ \A v \in versions : v.id # r
    /\ \A stored \in DOMAIN store.objects : stored[3] # r

\* C20: a manual-parity request whose path is outside the allow-list root,
\* does not exist, is not a file or cannot be parsed into a blueprint never
\* reaches the optimize step: no agent, version or run row and no artifact
\* is created for it, and when the service was called for it, it is
\* answered with 400.
C20_BadPathFailsBeforeOptimize ==
    \A r \in Req :
        (req[r].kind = "manual_parity" /\ BadManualPath(req[r].manual_blueprint_path)) =>
            /\ NothingCreatedFor(r)
            /\ (req[r].pc = "done" /\ tx[r].pc # "none") => req[r].resp.code = 400

\* ------------------------------------------------------------------ claim C21
\* C21: with authentication enabled, a request that carries no valid
\* credential (no configured API key and no well-formed, correctly signed,
\* unexpired token naming a tenant and a supported role) is answered 401, and
\* a request authenticated with a role whose permission set lacks the
\* endpoint's permission is answered 403; in both cases nothing else changes:
\* no idempotency record, no job, no work item, no transaction and no row.
\* A request that is not rejected enters the handler with the tenant of
\* its credential.
ValidKey(q) == q.x_api_key \in DOMAIN auth_api_keys
ValidToken(q) ==
    LET t == q.authorization.token
    IN  /\ q.authorization.scheme = "bearer"
        /\ t.segments = 3 /\ t.alg = "HS256" /\ t.signed_with = auth_jwt_secret
        /\ t.exp # 0 /\ JwtNow <= t.exp + auth_jwt_clock_skew_seconds
        /\ strip(t.tenant_id) # <<>> /\ t.role \in Roles
RejectedWith(r, code) ==
    /\ req'[r].pc = "done"
    /\ req'[r].resp.code = code
    /\ UNCHANGED <<dbVars, tx, records, queueVars>>
View(heap, blueprint) ==
    [tools |-> heap[blueprint.tools], actions |-> heap[blueprint.actions],
     leader_actions |-> heap[blueprint.leader_actions],
     mutation_trace |-> heap[blueprint.mutation_trace],
     operators |-> [e \in DOMAIN blueprint.experts |->
                      [o \in DOMAIN blueprint.experts[e] |->
                         [blueprint.experts[e][o] EXCEPT
                             !.actions = heap[blueprint.experts[e][o].actions]]]]]
LastTag(heap, blueprint) ==
    heap[blueprint.mutation_trace][Len(heap[blueprint.mutation_trace])]

\* C22: an expansion adds one blueprint whose blueprint_id no earlier
\* blueprint of the run has, whose parent_id is the id of the selected
\* node's blueprint and whose mutation_trace is that blueprint's trace
\* followed by one tag; the tools, actions, operators, leader_actions and
\* mutation_trace of every earlier blueprint, the parent among them, are
\* the same after the expansion as before.
C22_CandidateIsFreshCopy ==
    [][(search.pc = "expand" /\ search'.pc # "off") =>
          LET parent == search.blueprints[search.nodes[search.selected].blueprint]
              candidate == search'.blueprints[Len(search'.blueprints)]
              trace == search'.heap[candidate.mutation_trace]
          IN  /\ Len(search'.blueprints) = Len(search.blueprints) + 1
              /\ \A b \in DOMAIN search.blueprints :
                    /\ search.blueprints[b].blueprint_id # candidate.blueprint_id
                    /\ search'.blueprints[b] = search.blueprints[b]
                    /\ View(search'.heap, search.blueprints[b])
                         = View(search.heap, search.blueprints[b])
              /\ candidate.parent_id = parent.blueprint_id
              /\ Len(trace) = Len(search.heap[parent.mutation_trace]) + 1
              /\ SubSeq(trace, 1, Len(trace) - 1) = search.heap[parent.mutation_trace]]_vars
\* a candidate of a candidate: its trace has two tags, the second a tool:add
C22_Witness ==
    /\ search.pc \in {"select", "expand", "done"}
    /\ \E b \in DOMAIN search.blueprints :
          /\ Len(search.heap[search.blueprints[b].mutation_trace]) = 2
          /\ LastTag(search.heap, search.blueprints[b])[2] = "add"
          /\ search.blueprints[b].parent_id > 1

\* the blueprints C23 speaks of: made by build_initial_blueprint, or with
\* operators rebuilt by a topology mutation
FromInitialOrTopology(b) ==
    LET blueprint == search.blueprints[b]
    IN  IF blueprint.parent_id = 0
        THEN Built(search.heap, blueprint).blueprint
               \notin {ManualRoot.blueprint, BareRoot.blueprint}
        ELSE LastTag(search.heap, blueprint)[1] = "topology"
\* the operators of a view, in the order of the loops, as (expert, operator)
Lacking(view, name) ==
    {<<e, o>> \in UNION {{<<e2, o2>> : o2 \in DOMAIN view.operators[e2]} :
                            e2 \in DOMAIN view.operators} :
        name \notin Items(view.operators[e][o].actions)}
First(pairs) ==
    CHOOSE p \in pairs : \A q \in pairs :
        p[1] < q[1] \/ (p[1] = q[1] /\ p[2] <= q[2])
\* C23: a tool:add(X) candidate of such a blueprint has the parent's tools
\* followed by X and the parent's actions followed by use_<x>; use_<x> is
\* appended to the first operator of the parent that did not have it, and
\* leader_actions and the action lists of all other operators are those
\* of the parent.
C23_ToolAddTouchesOneOperator ==
    search.pc \in {"select", "expand", "done"} =>
    \A b \in DOMAIN search.blueprints :
        LET candidate == search.blueprints[b]
            tag == LastTag(search.heap, candidate)
            after == View(search.heap, candidate)
            before == View(search.heap, search.blueprints[candidate.parent_id])
            name == use_(tag[3])
            lacking == Lacking(before, name)
        IN  (candidate.parent_id # 0 /\ tag[1] = "tool" /\ tag[2] = "add"
                /\ FromInitialOrTopology(candidate.parent_id)) =>
            /\ after.tools = Append(before.tools, tag[3])
            /\ after.actions = Append(before.actions, ActionSpec(name, <<tag[3]>>))
            /\ after.leader_actions = before.leader_actions
            /\ \A e \in DOMAIN before.operators : \A o \in DOMAIN before.operators[e] :
                  after.operators[e][o].actions =
                      IF lacking # {} /\ <<e, o>> = First(lacking)
                      THEN Append(before.operators[e][o].actions, name)
                      ELSE before.operators[e][o].actions

\* every action named by an operator or by leader_actions is in actions, and
\* every tool named by an action is in tools
Closed(view) ==
    LET names == {view.actions[i].name : i \in DOMAIN view.actions}
    IN  /\ Items(view.leader_actions) \subseteq names
        /\ \A e \in DOMAIN view.operators : \A o \in DOMAIN view.operators[e] :
              Items(view.operators[e][o].actions) \subseteq names
        /\ \A i \in DOMAIN view.actions :
              Items(view.actions[i].tools) \subseteq Items(view.tools)
\* C24: when the root blueprint is closed, so is every blueprint of the
\* run; and a tool:remove(name) candidate removes an action that the
\* parent's leader_actions does not list, from actions and from every
\* operator.
C24_MutationsKeepClosure ==
    (search.pc \in {"select", "expand", "done"}
        /\ Closed(View(search.heap, search.blueprints[1]))) =>
    \A b \in DOMAIN search.blueprints :
        LET candidate == search.blueprints[b]
            after == View(search.heap, candidate)
        IN  /\ Closed(after)
            /\ (candidate.parent_id # 0
                  /\ LastTag(search.heap, candidate)[1] = "tool"
                  /\ LastTag(search.heap, candidate)[2] = "remove") =>
               LET name == LastTag(search.heap, candidate)[3]
                   before == View(search.heap, search.blueprints[candidate.parent_id])
               IN  /\ name \notin Items(before.leader_actions)
                   /\ name \in {before.actions[i].name : i \in DOMAIN before.actions}
                   /\ name \notin {after.actions[i].name : i \in DOMAIN after.actions}
                   /\ \A e \in DOMAIN after.operators :
                         \A o \in DOMAIN after.operators[e] :
                            name \notin Items(after.operators[e][o].actions)
\* a tool:remove took an action away from an operator that listed it
C24_Witness ==
    /\ search.pc \in {"select", "expand", "done"}
    /\ \E b \in DOMAIN search.blueprints :
          LET candidate == search.blueprints[b]
          IN  /\ candidate.parent_id # 0
              /\ LastTag(search.heap, candidate)[2] = "remove"
              /\ \E e \in DOMAIN candidate.experts : \E o \in DOMAIN candidate.experts[e] :
                    LastTag(search.heap, candidate)[3] \in
                        Items(View(search.heap, search.blueprints[candidate.parent_id])
                                .operators[e][o].actions)

\* the modes the knobs enable, in the order prompt, tool, topology
EnabledModes ==
    LET enabled(mode) ==
            \/ mode = "prompt" /\ search.config.enable_prompt_mutation
            \/ mode = "tool" /\ search.config.enable_tool_mutation
                             /\ search.tool_catalog # <<>>
            \/ mode = "topology" /\ search.config.enable_topology_mutation
    IN  SelectSeq(<<"prompt", "tool", "topology">>, enabled)
\* C25: rounds are numbered from 1 and the expansions of a round from 0;
\* the trace of expansion e of round r carries a mutation of mode
\* modes[(r + e) mod |modes|] (modes counted from 0), where modes lists the
\* enabled modes in the order prompt, tool, topology; with no mode enabled
\* it carries mutation:disabled.
C25_ModeRotation ==
    search.pc \in {"select", "expand", "done"} =>
    \A i \in DOMAIN search.round_traces :
        LET trace == search.round_traces[i]
            r == ((i - 1) \div search.config.expansions_per_round) + 1
            e == (i - 1) % search.config.expansions_per_round
        IN  /\ trace.round_idx = r
            /\ trace.expansion_idx = e
            /\ IF EnabledModes = <<>>
               THEN trace.mutation = <<"mutation", "disabled", "">>
               ELSE trace.mutation[1] = EnabledModes[((r + e) % Len(EnabledModes)) + 1]
\* all three modes are enabled and a round of two expansions has used two
\* of them
C25_Witness ==
    /\ search.pc \in {"select", "expand", "done"}
    /\ Len(EnabledModes) = 3
    /\ Len(search.round_traces) >= 2
    /\ search.round_traces[1].mutation[1] = "tool"
    /\ search.round_traces[2].mutation[1] = "topology"

\* ------------------------------------------------------------------ claim C27
\* C27: with use_holdout, the evaluation a finished run returns as
\* best_evaluation is an evaluation of the blueprint it returns as
\* best_blueprint.
C27_BestEvaluationIsOfBestBlueprint ==
    (search.pc = "done" /\ search.config.use_holdout) =>
        search.result.best_evaluation.blueprint = search.result.best_blueprint

\* ------------------------------------------------------------------ claim C29
\* the nodes on the way from node n to the root, n among them
RECURSIVE PathToRoot(_, _)
PathToRoot(parent_map, n) ==
    IF n = 0 THEN {} ELSE {n} \cup PathToRoot(parent_map, parent_map[n])
\* node n and its descendants
Subtree(parent_map, n) == {m \in DOMAIN parent_map : n \in PathToRoot(parent_map, m)}
RECURSIVE SumOf(_, _)
SumOf(rewards, S) ==
    IF S = {} THEN 0
    ELSE LET n == CHOOSE m \in S : TRUE IN rewards[n] + SumOf(rewards, S \ {n})
\* C29: when _select is called, the first node is the only one without a
\* parent and every other node's parent was made before it; each node's
\* visits is the size of its subtree (at least 1), its value_sum the sum
\* and its best_score the maximum of the rewards in its subtree.
C29_TreeStatistics ==
    search.pc = "select" =>
        /\ search.parent_map[1] = 0
        /\ \A n \in DOMAIN search.nodes :
              LET subtree == Subtree(search.parent_map, n)
                  node == search.nodes[n]
              IN  /\ n > 1 => search.parent_map[n] \in 1..(n - 1)
                  /\ node.visits >= 1
                  /\ node.visits = Cardinality(subtree)
                  /\ node.value_sum = SumOf(search.rewards, subtree)
                  /\ node.best_score = SetMax({search.rewards[m] : m \in subtree})

\* ------------------------------------------------------------------ claim C30
\* C30: two requests of different tenant ids do not resolve to the same
\* stored agent name, whatever their tenant ids and agent names hold.
C30_ScopedNameInjective ==
    \A r1 \in Req, r2 \in Req :
        (/\ req[r1].pc # "idle" /\ req[r2].pc # "idle"
         /\ ~scoped_name_raises(req[r1].tenant) /\ ~scoped_name_raises(req[r2].tenant)
         /\ req[r1].tenant # req[r2].tenant)
        => ScopedName(r1) # ScopedName(r2)

\* ---- claim C26 ----
Running == {j \in DOMAIN jobs : jobs[j].status = "running"}

\* jobs that become running in this step
Started == {j \in DOMAIN jobs : /\ jobs[j].status = "queued"
                                /\ jobs'[j].status = "running"}

\* i was submitted before j: its submit call stored its record earlier
SubmittedBefore(i, j) == jobs[i].created_at < jobs[j].created_at

\* C26: at any time at most max_workers jobs have status running, and no
\* job changes from queued to running while a job submitted before it is
\* still queued.
C26_BoundedAndFifo ==
    [][/\ Cardinality(Running) <= max_workers
       /\ \A j \in Started : \A i \in DOMAIN jobs :
             SubmittedBefore(i, j) => jobs[i].status # "queued"]_vars

\* ---- claim C28 ----
\* The circuit has opened (the calls failed in a row since the last success
\* have reached the threshold) and reset_seconds have passed since the
\* failure that opened it last.
OpenPeriodOver(a) ==
    /\ a.streak >= a.sdk_runtime_circuit_failure_threshold
    /\ a.now >= a.tripped_at + a.sdk_runtime_circuit_reset_seconds

\* C28: once the circuit has opened and reset_seconds have passed with no
\* successful call, the next call is passed to the executor again; when
\* that call fails the circuit is open again at once, after this single
\* failure, and when it succeeds the failure counter is back at 0.
C28_HalfOpenProbe ==
    [][/\ (CallStarts /\ OpenPeriodOver(adapter))
            => /\ adapter'.pc = "attempt"
               /\ ~CallReturns
       /\ (adapter.pc = "attempt" /\ CallReturns /\ OpenPeriodOver(adapter))
            => /\ Len(adapter'.attempts) >= 1
               /\ IF LastOutput(adapter') = _build_runtime_result
                  THEN /\ adapter'.consecutive_failures = 0
                       /\ ~_check_circuit_open(adapter')
                  ELSE /\ LastOutput(adapter') # CircuitOpenError
                       /\ _check_circuit_open(adapter')
                       /\ adapter'.circuit_open_until =
                             adapter'.now + adapter'.sdk_runtime_circuit_reset_seconds]_vars

\* with threshold 2: two failed calls opened the circuit, the open period
\* passed, the third call reached the executor and timed out, and the
\* circuit is open again after this one failure
C28_Witness ==
    /\ adapter.sdk_runtime_circuit_failure_threshold = 2
    /\ adapter.pc = "idle"
    /\ Len(adapter.log) = 3
    /\ adapter.log[1] = _build_runtime_error("EXECUTION_ERROR")
    /\ adapter.log[2] = _build_runtime_error("EXECUTION_ERROR")
    /\ adapter.log[3] = _build_runtime_error("TIMEOUT")
    /\ adapter.attempts # <<>>
    /\ adapter.streak = 3
    /\ adapter.tripped_at = adapter.now
    /\ _check_circuit_open(adapter)
====
